---- MODULE Spec2Model ----
(***************************************************************************)
(* Model of the immutable Forest of nartallax/forest (forest.ts, tree.ts). *)
(*                                                                         *)
(* JavaScript arrays are objects with identity and Array.prototype.sort    *)
(* sorts in place, so the arrays of the program live in a heap here: the   *)
(* heap is a sequence of arrays, an array is named by its index in the     *)
(* heap, and a branch node holds the name of its children array.  A leaf   *)
(* is the record [value |-> v], a branch is [value |-> v, children |-> a]: *)
(* as in tree.ts a node is a branch iff it has the field "children".       *)
(* Array indices and path segments are 0-based as in the source; the       *)
(* sequences that hold them here are 1-based.                              *)
(***************************************************************************)
EXTENDS Integers, Sequences, FiniteSets, TLC

VARIABLES heap, trees, call, ret, caller

vars == <<heap, trees, call, ret, caller>>

\* ---------------------------------------------------------------- bounds
\* node values are 1..NumValues
NumValues == 2
\* forests have at most MaxNodes nodes
MaxNodes == 3
\* deleteSeveralAt and moveSeveral take an amount in 0..MaxAmount
MaxAmount == 2
\* the caller changes its arrays at most MaxTouches times while a traversal is
\* suspended
MaxTouches == 1

Values == 1..NumValues

\* ------------------------------------------------------------ tree.ts
isTreeBranch(x) == "children" \in DOMAIN x

\* ------------------------------------------------------- errors, results
\* path[index] of a path that has no such segment
Undefined == 0 - 1

errorNotLeaf == [kind |-> "ExpectedLeaf", pathPart |-> Undefined, index |-> Undefined]
errorNotBranch == [kind |-> "ExpectedBranch", pathPart |-> Undefined, index |-> Undefined]
errorOutOfBounds(pathPart, index) == [kind |-> "OutOfBounds", pathPart |-> pathPart, index |-> index]
errorNotBranchAt(pathPart, index) == [kind |-> "ExpectedBranchAt", pathPart |-> pathPart, index |-> index]
errorZeroLengthPath == [kind |-> "ZeroLengthPath", pathPart |-> Undefined, index |-> Undefined]
\* the TypeError of  "children" in x  for an x that is undefined
errorInUndefined == [kind |-> "TypeError", pathPart |-> Undefined, index |-> Undefined]
\* new Error("Unreachable")
errorUnreachable == [kind |-> "Unreachable", pathPart |-> Undefined, index |-> Undefined]
NoError == [kind |-> "none", pathPart |-> Undefined, index |-> Undefined]

\* a call that returned r, leaving the heap h
Ok(h, r) == [h |-> h, r |-> r, err |-> NoError]
\* a call that threw e, leaving the heap h
Throw(h, e) == [h |-> h, r |-> 0, err |-> e]
Threw(x) == x.err.kind # "none"

\* ------------------------------------------------------------ arrays
\* a new array object holding the elements arr; its name is Len(h) + 1
Alloc(h, arr) == Ok(Append(h, arr), Len(h) + 1)

\* arr[i] for a 0-based index: the element, or nothing (undefined)
HasIndex(arr, i) == i >= 0 /\ i < Len(arr)
At(arr, i) == arr[i + 1]

\* arr.slice(from) and arr.slice(from, to), 0-based, clamped as Array.prototype.slice
\* (a negative index counts from the end)
sliceIndex(arr, i) ==
    IF i < 0 THEN (IF Len(arr) + i < 0 THEN 0 ELSE Len(arr) + i)
    ELSE IF i > Len(arr) THEN Len(arr) ELSE i
slice(arr, from, to) ==
    LET lo == sliceIndex(arr, from)
        hi == sliceIndex(arr, to)
    IN IF hi <= lo THEN <<>> ELSE SubSeq(arr, lo + 1, hi)
sliceFrom(arr, from) == slice(arr, from, Len(arr))

\* (mutant) one element dropped whatever the amount
dropElementsOne(arr, index, amount) == slice(arr, 0, index) \o sliceFrom(arr, index + 1)
\* (mutant) the elements after the index are dropped
dropElementsNext(arr, index, amount) == slice(arr, 0, index + 1) \o sliceFrom(arr, index + 1 + amount)
\* (mutant) the new elements go after the element at the index
insertElementsAfter(arr, newElements, index) ==
    slice(arr, 0, index + 1) \o newElements \o sliceFrom(arr, index + 1)

dropElements(arr, index, amount) == slice(arr, 0, index) \o sliceFrom(arr, index + amount)
insertElements(arr, newElements, index) == slice(arr, 0, index) \o newElements \o sliceFrom(arr, index)

\* ------------------------------------------------------------ comparators
\* a Comparator is "asc" or "desc" (by node value), or "none" when the optional
\* argument is omitted
compare(comparator, a, b) ==
    IF comparator = "asc" THEN a.value - b.value ELSE b.value - a.value

\* Array.prototype.sort is stable: each element goes behind its equals
RECURSIVE sortInsert(_, _, _)
sortInsert(sorted, x, comparator) ==
    IF sorted = <<>> THEN <<x>>
    ELSE IF compare(comparator, Head(sorted), x) > 0 THEN <<x>> \o sorted
    ELSE <<Head(sorted)>> \o sortInsert(Tail(sorted), x, comparator)

RECURSIVE sortArr(_, _)
sortArr(arr, comparator) ==
    IF arr = <<>> THEN <<>>
    ELSE sortInsert(sortArr(SubSeq(arr, 1, Len(arr) - 1), comparator), arr[Len(arr)], comparator)

\* a.sort(comparator): sorts the array object a itself
sortInPlace(h, a, comparator) == [h EXCEPT ![a] = sortArr(h[a], comparator)]
sortIf(h, a, comparator) == IF comparator # "none" THEN sortInPlace(h, a, comparator) ELSE h

\* ------------------------------------------------ structure behind a name
\* the nested trees an array holds: children are the nested sequences
RECURSIVE Deref(_, _)
DerefNode(h, t) ==
    IF isTreeBranch(t) THEN [value |-> t.value, children |-> Deref(h, t.children)]
    ELSE [value |-> t.value]
Deref(h, a) == [i \in 1..Len(h[a]) |-> DerefNode(h, h[a][i])]

\* the caller's trees, built bottom-up into the heap
RECURSIVE allocTrees(_, _)
RECURSIVE allocNodes(_, _, _, _)
allocNodes(h, vs, i, acc) ==
    IF i > Len(vs) THEN Alloc(h, acc)
    ELSE IF isTreeBranch(vs[i])
         THEN LET c == allocTrees(h, vs[i].children)
              IN allocNodes(c.h, vs, i + 1, Append(acc, [value |-> vs[i].value, children |-> c.r]))
         ELSE allocNodes(h, vs, i + 1, Append(acc, [value |-> vs[i].value]))
allocTrees(h, vs) == allocNodes(h, vs, 1, <<>>)

RECURSIVE CountNodes(_)
CountNodes(vs) ==
    IF vs = <<>> THEN 0
    ELSE 1 + (IF isTreeBranch(Head(vs)) THEN CountNodes(Head(vs).children) ELSE 0)
           + CountNodes(Tail(vs))

\* ------------------------------------------------------------ updaters
\* updateLeafAt's closure: tree => {value: updater(tree.value)}
leafUpdater(h, f, tree) ==
    IF isTreeBranch(tree) THEN Throw(h, errorNotLeaf)
    ELSE Ok(h, [value |-> f[tree.value]])

\* (mutant) the re-wrapped branch loses its children
branchUpdaterNoChildren(h, f, tree) ==
    IF ~isTreeBranch(tree) THEN Throw(h, errorNotBranch)
    ELSE LET none == Alloc(h, <<>>)
         IN Ok(none.h, [value |-> f[tree.value], children |-> none.r])

\* updateBranchAt's closure: tree => {value: updater(tree.value), children: tree.children}
branchUpdater(h, f, tree) ==
    IF ~isTreeBranch(tree) THEN Throw(h, errorNotBranch)
    ELSE Ok(h, [value |-> f[tree.value], children |-> tree.children])

\* deleteAtInternal's closure
dropUpdater(h, lastPathPart, amount, tree) ==
    IF ~isTreeBranch(tree) THEN Throw(h, errorNotBranch)
    ELSE LET children == Alloc(h, dropElements(h[tree.children], lastPathPart, amount))
         IN Ok(children.h, [value |-> tree.value, children |-> children.r])

\* insertAtInternal's closure; newTrees is the name of the array of new trees
insertUpdater(h, newTrees, lastPathPart, comparator, tree) ==
    IF ~isTreeBranch(tree) THEN Throw(h, errorNotBranch)
    ELSE LET children == Alloc(h, insertElements(h[tree.children], h[newTrees], lastPathPart))
         IN Ok(sortIf(children.h, children.r, comparator),
               [value |-> tree.value, children |-> children.r])

\* The updater closures handed to updateInternal, as data:
\*   [kind |-> "leaf", f]    updateLeafAt's
\*   [kind |-> "branch", f]  updateBranchAt's
\*   [kind |-> "drop", lastPathPart, amount]                  deleteAtInternal's
\*   [kind |-> "insert", newTrees, lastPathPart, comparator]  insertAtInternal's
\*   [kind |-> "const", tree]  a caller's updater for updateTreeAt: () => tree
applyUpdater(h, updater, tree) ==
    CASE updater.kind = "leaf" -> leafUpdater(h, updater.f, tree)
      [] updater.kind = "branch" -> branchUpdater(h, updater.f, tree)
      [] updater.kind = "drop" -> dropUpdater(h, updater.lastPathPart, updater.amount, tree)
      [] updater.kind = "insert" ->
            insertUpdater(h, updater.newTrees, updater.lastPathPart, updater.comparator, tree)
      [] updater.kind = "const" -> Ok(h, updater.tree)

\* ------------------------------------------------------------ updateInternal
\* (mutant) const result = arr: the same array object, not a copy
copyArrayAlias(h, a) == Ok(h, a)

\* [...arr]: a new array object with the same elements
copyArray(h, a) == Alloc(h, h[a])
\* a[i] = x
setElement(h, a, i, x) == [h EXCEPT ![a][i + 1] = x]

RECURSIVE updateInternal(_, _, _, _, _, _)

\* (mutant) only the array that holds the updated node is sorted
RECURSIVE updateInternalSortLast(_, _, _, _, _, _)
updateInternalSortLast(h, a, path, updater, comparator, index) ==
    IF index >= Len(path) THEN Throw(h, errorOutOfBounds(Undefined, index))
    ELSE LET pathPart == path[index + 1] IN
    IF ~HasIndex(h[a], pathPart) THEN Throw(h, errorOutOfBounds(pathPart, index))
    ELSE LET tree == At(h[a], pathPart)
             new == IF index >= Len(path) - 1 THEN applyUpdater(h, updater, tree)
                    ELSE IF ~isTreeBranch(tree) THEN Throw(h, errorNotBranchAt(pathPart, index))
                    ELSE LET sub == updateInternalSortLast(h, tree.children, path, updater, comparator, index + 1)
                         IN IF Threw(sub) THEN sub
                            ELSE Ok(sub.h, [value |-> tree.value, children |-> sub.r])
         IN IF Threw(new) THEN new
            ELSE LET result == copyArray(new.h, a)
                     stored == setElement(result.h, result.r, pathPart, new.r)
                 IN Ok(IF index >= Len(path) - 1 THEN sortIf(stored, result.r, comparator) ELSE stored,
                       result.r)

updateInternal(h, a, path, updater, comparator, index) ==
    IF index >= Len(path) THEN Throw(h, errorOutOfBounds(Undefined, index))
    ELSE LET pathPart == path[index + 1] IN
    IF ~HasIndex(h[a], pathPart) THEN Throw(h, errorOutOfBounds(pathPart, index))
    ELSE LET tree == At(h[a], pathPart)
             new == IF index >= Len(path) - 1 THEN applyUpdater(h, updater, tree)
                    ELSE IF ~isTreeBranch(tree) THEN Throw(h, errorNotBranchAt(pathPart, index))
                    ELSE LET sub == updateInternal(h, tree.children, path, updater, comparator, index + 1)
                         IN IF Threw(sub) THEN sub
                            ELSE Ok(sub.h, [value |-> tree.value, children |-> sub.r])
         IN IF Threw(new) THEN new
            ELSE LET result == copyArray(new.h, a)
                     stored == setElement(result.h, result.r, pathPart, new.r)
                 IN Ok(sortIf(stored, result.r, comparator), result.r)

\* ------------------------------------------------------------ delete, insert
\* (mutant) a final index past the last root is refused
deleteAtInternalChecked(h, a, path, amount) ==
    IF Len(path) = 0 THEN Throw(h, errorZeroLengthPath)
    ELSE LET lastPathPart == path[Len(path)] IN
         IF Len(path) = 1
         THEN IF lastPathPart >= Len(h[a]) THEN Throw(h, errorOutOfBounds(lastPathPart, 0))
              ELSE Alloc(h, dropElements(h[a], lastPathPart, amount))
         ELSE updateInternal(h, a, SubSeq(path, 1, Len(path) - 1),
                  [kind |-> "drop", lastPathPart |-> lastPathPart, amount |-> amount], "none", 0)

deleteAtInternal(h, a, path, amount) ==
    IF Len(path) = 0 THEN Throw(h, errorZeroLengthPath)
    ELSE LET lastPathPart == path[Len(path)] IN
         IF Len(path) = 1 THEN Alloc(h, dropElements(h[a], lastPathPart, amount))
         ELSE updateInternal(h, a, SubSeq(path, 1, Len(path) - 1),
                  [kind |-> "drop", lastPathPart |-> lastPathPart, amount |-> amount], "none", 0)

\* (mutant) the comparator is handed on to updateInternal as well
insertAtInternalSortPath(h, a, path, newTrees, comparator) ==
    IF Len(path) = 0 THEN Throw(h, errorZeroLengthPath)
    ELSE LET lastPathPart == path[Len(path)] IN
         IF Len(path) = 1
         THEN LET result == Alloc(h, insertElements(h[a], h[newTrees], lastPathPart))
              IN Ok(sortIf(result.h, result.r, comparator), result.r)
         ELSE updateInternal(h, a, SubSeq(path, 1, Len(path) - 1),
                  [kind |-> "insert", newTrees |-> newTrees, lastPathPart |-> lastPathPart,
                   comparator |-> comparator], comparator, 0)

insertAtInternal(h, a, path, newTrees, comparator) ==
    IF Len(path) = 0 THEN Throw(h, errorZeroLengthPath)
    ELSE LET lastPathPart == path[Len(path)] IN
         IF Len(path) = 1
         THEN LET result == Alloc(h, insertElements(h[a], h[newTrees], lastPathPart))
              IN Ok(sortIf(result.h, result.r, comparator), result.r)
         ELSE updateInternal(h, a, SubSeq(path, 1, Len(path) - 1),
                  [kind |-> "insert", newTrees |-> newTrees, lastPathPart |-> lastPathPart,
                   comparator |-> comparator], "none", 0)



\* ------------------------------------------------------------ path resolution
RECURSIVE pathToTreesFrom(_, _, _, _, _)
\* (mutant) a leaf in the way is reported one depth too deep
pathToTreesFromLeafFirst(h, a, path, i, result) ==
    IF i >= Len(path) THEN Ok(h, result)
    ELSE LET part == path[i + 1] IN
         IF ~HasIndex(h[a], part) THEN Throw(h, errorOutOfBounds(part, i))
         ELSE LET tree == At(h[a], part) IN
              IF ~isTreeBranch(tree) THEN
                  (IF i = Len(path) - 1 THEN Ok(h, Append(result, tree))
                   ELSE Throw(h, errorNotBranchAt(part, i + 1)))
              ELSE IF i = Len(path) - 1 THEN Ok(h, Append(result, tree))
              ELSE pathToTreesFrom(h, tree.children, path, i + 1, Append(result, tree))

pathToTreesFrom(h, a, path, i, result) ==
    IF i >= Len(path) THEN Ok(h, result)
    ELSE LET part == path[i + 1] IN
         IF ~HasIndex(h[a], part) THEN Throw(h, errorOutOfBounds(part, i))
         ELSE LET tree == At(h[a], part) IN
              IF i = Len(path) - 1 THEN Ok(h, Append(result, tree))
              ELSE IF ~isTreeBranch(tree) THEN Throw(h, errorNotBranchAt(part, i))
              ELSE pathToTreesFrom(h, tree.children, path, i + 1, Append(result, tree))

pathToTrees(h, a, path) == pathToTreesFrom(h, a, path, 0, <<>>)

\* what indexing an array outside of it gives
UndefinedTree == [undefined |-> TRUE]

\* (mutant) pathToTrees(path)[0]: the root of the chain, not its end
getTreeAtFirst(h, a, path) ==
    LET chain == pathToTrees(h, a, path)
    IN IF Threw(chain) THEN chain
       ELSE IF Len(path) = 0 THEN Ok(h, UndefinedTree)
       ELSE Ok(h, chain.r[1])

\* pathToTrees(path)[path.length - 1]
getTreeAt(h, a, path) ==
    LET chain == pathToTrees(h, a, path)
    IN IF Threw(chain) THEN chain
       ELSE IF Len(path) = 0 THEN Ok(h, UndefinedTree)
       ELSE Ok(h, chain.r[Len(path)])

\* (mutant) the run ends at index amount, not at start + amount
getTreesAtUpTo(h, a, path, amount) ==
    IF Len(path) = 0 THEN Alloc(h, <<>>)
    ELSE LET start == path[Len(path)] IN
         IF Len(path) = 1 THEN Alloc(h, slice(h[a], start, amount))
         ELSE LET parent == getTreeAt(h, a, SubSeq(path, 1, Len(path) - 1))
              IN IF Threw(parent) THEN parent
                 ELSE IF ~isTreeBranch(parent.r) THEN Throw(h, errorNotBranch)
                 ELSE Alloc(h, slice(h[parent.r.children], start, amount))

\* returns the name of a new array holding the run of siblings
getTreesAt(h, a, path, amount) ==
    IF Len(path) = 0 THEN Alloc(h, <<>>)
    ELSE LET start == path[Len(path)] IN
         IF Len(path) = 1 THEN Alloc(h, slice(h[a], start, start + amount))
         ELSE LET parent == getTreeAt(h, a, SubSeq(path, 1, Len(path) - 1))
              IN IF Threw(parent) THEN parent
                 ELSE IF ~isTreeBranch(parent.r) THEN Throw(h, errorNotBranch)
                 ELSE Alloc(h, slice(h[parent.r.children], start, start + amount))

\* isTreeBranch(tree) for what getTreeAt returned: "children" in undefined throws
isTreeBranchChecked(h, tree) ==
    IF tree = UndefinedTree THEN Throw(h, errorInUndefined) ELSE Ok(h, isTreeBranch(tree))

getLeafTreeAt(h, a, path) ==
    LET tree == getTreeAt(h, a, path) IN
    IF Threw(tree) THEN tree
    ELSE LET branch == isTreeBranchChecked(h, tree.r) IN
         IF Threw(branch) THEN branch
         ELSE IF branch.r THEN Throw(h, errorNotLeaf)
         ELSE tree

getLeafAt(h, a, path) ==
    LET tree == getLeafTreeAt(h, a, path)
    IN IF Threw(tree) THEN tree ELSE Ok(h, tree.r.value)

getBranchTreeAt(h, a, path) ==
    LET tree == getTreeAt(h, a, path) IN
    IF Threw(tree) THEN tree
    ELSE LET branch == isTreeBranchChecked(h, tree.r) IN
         IF Threw(branch) THEN branch
         ELSE IF ~branch.r THEN Throw(h, errorNotBranch)
         ELSE tree

getBranchAt(h, a, path) ==
    LET tree == getBranchTreeAt(h, a, path)
    IN IF Threw(tree) THEN tree ELSE Ok(h, tree.r.value)

\* returns the name of a new array: the siblings without the addressed node
getSiblingTreesAt(h, a, path) ==
    IF Len(path) = 0 THEN Throw(h, errorZeroLengthPath)
    ELSE LET parentPath == SubSeq(path, 1, Len(path) - 1)
             childIndex == path[Len(path)]
         IN IF Len(parentPath) = 0 THEN Alloc(h, dropElements(h[a], childIndex, 1))
            ELSE LET parent == getTreeAt(h, a, parentPath)
                 IN IF Threw(parent) THEN parent
                    ELSE IF ~isTreeBranch(parent.r) THEN Throw(h, errorNotBranch)
                    ELSE Alloc(h, dropElements(h[parent.r.children], childIndex, 1))

\* returns the name of a new array of values
getSiblingsAt(h, a, path) ==
    LET siblings == getSiblingTreesAt(h, a, path)
    IN IF Threw(siblings) THEN siblings
       ELSE Alloc(siblings.h, [i \in 1..Len(siblings.h[siblings.r]) |-> siblings.h[siblings.r][i].value])

pathToValues(h, a, path) ==
    LET chain == pathToTrees(h, a, path)
    IN IF Threw(chain) THEN chain
       ELSE Ok(h, [i \in 1..Len(chain.r) |-> chain.r[i].value])

\* a value of type X | null: null, or an X
Null == [null |-> TRUE]
NotNull(x) == [null |-> FALSE, some |-> x]

\* the index of the first tree from index i on whose value is v, or -1
RECURSIVE indexOfValue(_, _, _)
\* (mutant) the last tree whose value is v
indexOfValueLast(arr, v, i) ==
    LET hits == {j \in 0..(Len(arr) - 1) : At(arr, j).value = v}
    IN IF hits = {} THEN 0 - 1 ELSE CHOOSE j \in hits : \A k \in hits : k <= j

indexOfValue(arr, v, i) ==
    IF i >= Len(arr) THEN 0 - 1
    ELSE IF At(arr, i).value = v THEN i
    ELSE indexOfValue(arr, v, i + 1)

\* the outer loop of valuesToPath from arrayIndex on, trees being the array a
RECURSIVE valuesToPathFrom(_, _, _, _, _)
valuesToPathFrom(h, a, values, arrayIndex, result) ==
    IF arrayIndex >= Len(values) THEN Throw(h, errorUnreachable)
    ELSE LET i == indexOfValue(h[a], values[arrayIndex + 1], 0) IN
         IF i < 0 THEN Ok(h, Null)
         ELSE LET tree == At(h[a], i) IN
              IF arrayIndex = Len(values) - 1 THEN Ok(h, NotNull(Append(result, i)))
              ELSE IF isTreeBranch(tree)
                   THEN valuesToPathFrom(h, tree.children, values, arrayIndex + 1, Append(result, i))
                   ELSE Throw(h, errorNotBranch)

valuesToPath(h, a, values) == valuesToPathFrom(h, a, values, 0, <<>>)

\* ------------------------------------------------------------ move
RECURSIVE updateMovePathFrom(_, _, _, _)

\* (mutant) the target path is never adjusted
updateMovePathFromNever(from, to, amount, i) == to

updateMovePathFrom(from, to, amount, i) ==
    IF i >= Len(from) \/ i >= Len(to) THEN to
    ELSE IF from[i + 1] < to[i + 1] THEN [to EXCEPT ![i + 1] = to[i + 1] - amount]
    ELSE updateMovePathFrom(from, to, amount, i + 1)

updateMovePath(from, to, amount) == updateMovePathFrom(from, to, amount, 0)

\* (mutant) one node more than was taken is deleted
moveSeveralDropMore(h, a, from, to, amount, comparator) ==
    LET movedTrees == getTreesAt(h, a, from, amount)
    IN IF Threw(movedTrees) THEN movedTrees
       ELSE LET to2 == updateMovePath(from, to, amount)
                deleted == deleteAtInternal(movedTrees.h, a, from, amount + 1)
            IN IF Threw(deleted) THEN deleted
               ELSE insertAtInternal(deleted.h, deleted.r, to2, movedTrees.r, comparator)

\* (mutant) the nodes are inserted at to as the caller gave it
moveSeveralUnadjusted(h, a, from, to, amount, comparator) ==
    LET movedTrees == getTreesAt(h, a, from, amount)
    IN IF Threw(movedTrees) THEN movedTrees
       ELSE LET deleted == deleteAtInternal(movedTrees.h, a, from, amount)
            IN IF Threw(deleted) THEN deleted
               ELSE insertAtInternal(deleted.h, deleted.r, to, movedTrees.r, comparator)

moveSeveral(h, a, from, to, amount, comparator) ==
    LET movedTrees == getTreesAt(h, a, from, amount)
    IN IF Threw(movedTrees) THEN movedTrees
       ELSE LET to2 == updateMovePath(from, to, amount)
                deleted == deleteAtInternal(movedTrees.h, a, from, amount)
            IN IF Threw(deleted) THEN deleted
               ELSE insertAtInternal(deleted.h, deleted.r, to2, movedTrees.r, comparator)

\* ------------------------------------------------------------ sort
RECURSIVE sortTreesRecursively(_, _, _)
RECURSIVE sortTreesLoop(_, _, _, _)
\* the loop of sortTreesRecursively from index i on; gives the heap it leaves
\* (mutant) the children of the branches are not sorted
sortTreesLoopShallow(h, a, comparator, i) == h

sortTreesLoop(h, a, comparator, i) ==
    IF i >= Len(h[a]) THEN h
    ELSE LET tree == At(h[a], i) IN
         IF isTreeBranch(tree)
         THEN LET children == copyArray(h, tree.children)
                  sorted == sortTreesRecursively(children.h, children.r, comparator)
              IN sortTreesLoop(setElement(sorted, a, i, [value |-> tree.value, children |-> children.r]),
                               a, comparator, i + 1)
         ELSE sortTreesLoop(h, a, comparator, i + 1)
sortTreesRecursively(h, a, comparator) == sortTreesLoop(sortInPlace(h, a, comparator), a, comparator, 0)

sort(h, a, comparator) ==
    LET new == copyArray(h, a)
    IN Ok(sortTreesRecursively(new.h, new.r, comparator), new.r)

\* ------------------------------------------------------------ filter and map
\* The caller's predicates on a value and a path, as data:
\*   [kind |-> "value", in |-> S]  (value, path) => S.has(value)
\*   [kind |-> "index", in |-> S]  (value, path) => S.has(path[path.length - 1])
\*   [kind |-> "depth", in |-> S]  (value, path) => S.has(path.length)
keepsValue(shouldKeep, value, path) ==
    CASE shouldKeep.kind = "value" -> value \in shouldKeep.in
      [] shouldKeep.kind = "index" -> path[Len(path)] \in shouldKeep.in
      [] shouldKeep.kind = "depth" -> Len(path) \in shouldKeep.in

\* The predicates on a tree and a path that reach filterInternal, as data:
\*   "filter"        filter's closure  (tree, path) => shouldKeep(tree.value, path)
\*   "filterLeaves"  filterLeaves' closure
\*   "leaf"          a caller's  tree => !isTreeBranch(tree)
\*   "branch"        a caller's  isTreeBranch
\*   "notEmptyBranch"  a caller's  tree => !isTreeBranch(tree) || tree.children.length > 0
keepsTree(h, shouldKeep, tree, path) ==
    CASE shouldKeep.kind = "filter" -> keepsValue(shouldKeep.of, tree.value, path)
      [] shouldKeep.kind = "filterLeaves" ->
            IF isTreeBranch(tree)
            THEN Len(h[tree.children]) > 0 \/ ~shouldKeep.dropEmptyBranches
            ELSE keepsValue(shouldKeep.of, tree.value, path)
      [] shouldKeep.kind = "leaf" -> ~isTreeBranch(tree)
      [] shouldKeep.kind = "branch" -> isTreeBranch(tree)
      [] shouldKeep.kind = "notEmptyBranch" -> ~isTreeBranch(tree) \/ Len(h[tree.children]) > 0

valueFilter(shouldKeep) == [kind |-> "filter", of |-> shouldKeep, dropEmptyBranches |-> FALSE]
leafFilter(shouldKeep, dropEmptyBranches) ==
    [kind |-> "filterLeaves", of |-> shouldKeep, dropEmptyBranches |-> dropEmptyBranches]
treeFilter(kind) == [kind |-> kind, of |-> <<>>, dropEmptyBranches |-> FALSE]

\* trees.map(...).filter(nonNull): kept holds the trees kept among the first i
RECURSIVE filterInternal(_, _, _, _)
RECURSIVE filterLoop(_, _, _, _, _, _)
\* (mutant) the predicate is asked about the tree as it was, children not yet filtered
filterLoopOld(h, a, shouldKeep, path, i, kept) ==
    IF i >= Len(h[a]) THEN Alloc(h, kept)
    ELSE LET treePath == Append(path, i)
             old == At(h[a], i)
             children == IF isTreeBranch(old)
                         THEN filterInternal(h, old.children, shouldKeep, treePath)
                         ELSE Ok(h, 0)
             tree == IF isTreeBranch(old) THEN [value |-> old.value, children |-> children.r] ELSE old
         IN filterLoop(children.h, a, shouldKeep, path, i + 1,
                       IF keepsTree(children.h, shouldKeep, old, treePath)
                       THEN Append(kept, tree) ELSE kept)

filterLoop(h, a, shouldKeep, path, i, kept) ==
    IF i >= Len(h[a]) THEN Alloc(h, kept)
    ELSE LET treePath == Append(path, i)
             old == At(h[a], i)
             children == IF isTreeBranch(old)
                         THEN filterInternal(h, old.children, shouldKeep, treePath)
                         ELSE Ok(h, 0)
             tree == IF isTreeBranch(old) THEN [value |-> old.value, children |-> children.r] ELSE old
         IN filterLoop(children.h, a, shouldKeep, path, i + 1,
                       IF keepsTree(children.h, shouldKeep, tree, treePath)
                       THEN Append(kept, tree) ELSE kept)
filterInternal(h, a, shouldKeep, path) == filterLoop(h, a, shouldKeep, path, 0, <<>>)

filter(h, a, shouldKeep) == filterInternal(h, a, valueFilter(shouldKeep), <<>>)
filterTrees(h, a, shouldKeep) == filterInternal(h, a, shouldKeep, <<>>)
\* (mutant) dropEmptyBranches is not looked at
filterLeavesKeepBranches(h, a, shouldKeep, dropEmptyBranches) ==
    filterTrees(h, a, leafFilter(shouldKeep, FALSE))

filterLeaves(h, a, shouldKeep, dropEmptyBranches) ==
    filterTrees(h, a, leafFilter(shouldKeep, dropEmptyBranches))

\* The caller's mapLeaf and mapBranch, as data:
\*   [kind |-> "value", f |-> g]  (value, path) => g(value)
\*   [kind |-> "index", f |-> g]  (value, path) => g(path[path.length - 1] % NumValues + 1)
\*   [kind |-> "depth", f |-> g]  (value, path) => g(path.length % NumValues + 1)
\*   [kind |-> "omitted", f |-> g]  no mapBranch given:  value => value
mapValue(mapper, value, path) ==
    CASE mapper.kind = "value" -> mapper.f[value]
      [] mapper.kind = "index" -> mapper.f[(path[Len(path)] % NumValues) + 1]
      [] mapper.kind = "depth" -> mapper.f[(Len(path) % NumValues) + 1]
      [] mapper.kind = "omitted" -> value

RECURSIVE mapInternal(_, _, _, _, _)
RECURSIVE mapLoop(_, _, _, _, _, _, _)
\* (mutant) mapLeaf is applied to the values of branches too
mapLoopLeafOnly(h, a, mapLeaf, mapBranch, path, i, mapped) ==
    IF i >= Len(h[a]) THEN Alloc(h, mapped)
    ELSE LET treePath == Append(path, i)
             tree == At(h[a], i)
         IN IF isTreeBranch(tree)
            THEN LET children == mapInternal(h, tree.children, mapLeaf, mapBranch, treePath)
                 IN mapLoop(children.h, a, mapLeaf, mapBranch, path, i + 1,
                            Append(mapped, [value |-> mapValue(mapLeaf, tree.value, treePath),
                                            children |-> children.r]))
            ELSE mapLoop(h, a, mapLeaf, mapBranch, path, i + 1,
                         Append(mapped, [value |-> mapValue(mapLeaf, tree.value, treePath)]))

mapLoop(h, a, mapLeaf, mapBranch, path, i, mapped) ==
    IF i >= Len(h[a]) THEN Alloc(h, mapped)
    ELSE LET treePath == Append(path, i)
             tree == At(h[a], i)
         IN IF isTreeBranch(tree)
            THEN LET children == mapInternal(h, tree.children, mapLeaf, mapBranch, treePath)
                 IN mapLoop(children.h, a, mapLeaf, mapBranch, path, i + 1,
                            Append(mapped, [value |-> mapValue(mapBranch, tree.value, treePath),
                                            children |-> children.r]))
            ELSE mapLoop(h, a, mapLeaf, mapBranch, path, i + 1,
                         Append(mapped, [value |-> mapValue(mapLeaf, tree.value, treePath)]))
mapInternal(h, a, mapLeaf, mapBranch, path) == mapLoop(h, a, mapLeaf, mapBranch, path, 0, <<>>)

map(h, a, mapLeaf, mapBranch) == mapInternal(h, a, mapLeaf, mapBranch, <<>>)

\* ------------------------------------------------------------ traversal
\* The predicates given to getTreeNodesInternal, as data:
\*   [kind |-> "true"]  getAllTrees'  () => true
\*   [kind |-> "leaf"]  getLeavesWithPaths'  tree => !isTreeBranch(tree)
\*   [kind |-> "branch"]  getBranchesWithPath's  isTreeBranch
\*   [kind |-> "value", in |-> S]  a caller's predicate on values: value => S.has(value)
holds(isThisIt, tree) ==
    CASE isThisIt.kind = "true" -> TRUE
      [] isThisIt.kind = "leaf" -> ~isTreeBranch(tree)
      [] isThisIt.kind = "branch" -> isTreeBranch(tree)
      [] isThisIt.kind = "value" -> tree.value \in isThisIt.in

\* the pairs <<tree, path>> the generator yields, in the order it yields them
RECURSIVE getTreeNodesInternal(_, _, _, _)
RECURSIVE getTreeNodesLoop(_, _, _, _, _)
getTreeNodesLoop(h, a, isThisIt, path, i) ==
    IF i >= Len(h[a]) THEN <<>>
    ELSE LET treePath == Append(path, i)
             tree == At(h[a], i)
         IN (IF holds(isThisIt, tree) THEN << <<tree, treePath>> >> ELSE <<>>)
            \o (IF isTreeBranch(tree) THEN getTreeNodesInternal(h, tree.children, isThisIt, treePath)
                ELSE <<>>)
            \o getTreeNodesLoop(h, a, isThisIt, path, i + 1)
getTreeNodesInternal(h, a, isThisIt, path) == getTreeNodesLoop(h, a, isThisIt, path, 0)

\* A generator object of getTreeNodesInternal.  Calling the generator function
\* runs none of its body; each next() runs the body up to the next yield and
\* reads the arrays as they are then.  stack holds the frames of the nested
\* yield* calls, the innermost last; a frame is the parameters trees and path,
\* the loop variable i, and, while the frame is suspended at its yield
\* (at = "yield"), the local tree.  gives says what the wrapping generator
\* function yields for a pair: the pair ("pair", getAllTrees), [value, path]
\* ("valuePath", getLeavesWithPaths, getBranchesWithPath) or the value ("value",
\* getLeaves, getBranches).
newFrame(a, path) == [trees |-> a, i |-> 0, path |-> path, at |-> "loop", tree |-> UndefinedTree]
newGenerator(a, isThisIt, gives) ==
    [stack |-> <<newFrame(a, <<>>)>>, isThisIt |-> isThisIt, gives |-> gives, done |-> FALSE]

\* (mutant) the body goes on to the next sibling without the children
afterYieldFlat(stack, tree) ==
    LET n == Len(stack)
        f == stack[n]
    IN [stack EXCEPT ![n] = [f EXCEPT !.i = f.i + 1, !.at = "loop", !.tree = UndefinedTree]]

\* the stack once the innermost frame is past its yield for tree: a frame for
\* the children if tree is a branch, and i++ when that frame has ended
afterYield(stack, tree) ==
    LET n == Len(stack)
        f == stack[n]
        looping == [stack EXCEPT ![n] = [f EXCEPT !.i = f.i + 1, !.at = "loop", !.tree = UndefinedTree]]
    IN IF isTreeBranch(tree) THEN Append(looping, newFrame(tree.children, Append(f.path, f.i)))
       ELSE looping

\* the body of getTreeNodesInternal run from where the frames stand up to the
\* next yield or to the end: the frames left, and the pair yielded
RECURSIVE resume(_, _, _)
resume(h, stack, isThisIt) ==
    IF stack = <<>> THEN [stack |-> <<>>, done |-> TRUE, value |-> <<>>]
    ELSE LET n == Len(stack)
             f == stack[n]
         IN IF f.at = "yield" THEN resume(h, afterYield(stack, f.tree), isThisIt)
            ELSE IF f.i < Len(h[f.trees])
            THEN LET treePath == Append(f.path, f.i)
                     tree == At(h[f.trees], f.i)
                 IN IF holds(isThisIt, tree)
                    THEN [stack |-> [stack EXCEPT ![n] = [f EXCEPT !.at = "yield", !.tree = tree]],
                          done |-> FALSE, value |-> <<tree, treePath>>]
                    ELSE resume(h, afterYield(stack, tree), isThisIt)
            ELSE resume(h, SubSeq(stack, 1, n - 1), isThisIt)

\* what the wrapping generator function yields for the pair
given(gives, pair) ==
    CASE gives = "pair" -> pair
      [] gives = "valuePath" -> <<pair[1].value, pair[2]>>
      [] gives = "value" -> pair[1].value

\* it.next(): the generator afterwards, and {done, value}
next(h, g) ==
    LET ran == resume(h, g.stack, g.isThisIt)
    IN [gen |-> [g EXCEPT !.stack = ran.stack, !.done = ran.done],
        done |-> ran.done,
        value |-> IF ran.done THEN <<>> ELSE given(g.gives, ran.value)]

getAllTrees(h, a) == newGenerator(a, [kind |-> "true"], "pair")
getLeavesWithPaths(h, a) == newGenerator(a, [kind |-> "leaf"], "valuePath")
getLeaves(h, a) == newGenerator(a, [kind |-> "leaf"], "value")
getBranchesWithPath(h, a) == newGenerator(a, [kind |-> "branch"], "valuePath")
getBranches(h, a) == newGenerator(a, [kind |-> "branch"], "value")

\* for(const [, path] of generator){ return path }: the generator runs up to its
\* first yield only
findPathByTree(h, a, isThisIt) ==
    LET found == getTreeNodesInternal(h, a, isThisIt, <<>>)
    IN IF Len(found) = 0 THEN Null ELSE NotNull(found[1][2])

\* isThisIt is a predicate on values, [kind |-> "value", in |-> S]
findPath(h, a, isThisIt) == findPathByTree(h, a, isThisIt)

\* (mutant) the value of the last node that satisfies the predicate
findLast(h, a, isThisIs) ==
    LET found == getTreeNodesInternal(h, a, isThisIs, <<>>)
    IN IF Len(found) = 0 THEN Null ELSE NotNull(found[Len(found)][1].value)

\* result is assigned by the closure given to findPath, which findPath calls on
\* the nodes in traversal order and for the last time on the first that matches
find(h, a, isThisIs) ==
    LET found == getTreeNodesInternal(h, a, isThisIs, <<>>)
    IN IF Len(found) = 0 THEN Null ELSE NotNull(found[1][1].value)

\* ------------------------------------------------------------ toString
\* The box-drawing characters of toStringInternal, written in ASCII here:
\* "+" is U+251C (a sibling follows), "L" is U+2514 (last sibling),
\* "|" is U+2502 (continuation under an ancestor that has a following sibling)
BoxTee == "+"
BoxEll == "L"
BoxBar == "|"

\* a number's decimal string, as string concatenation converts it
Digits == <<"0", "1", "2", "3", "4", "5", "6", "7", "8", "9">>
RECURSIVE numberToString(_)
numberToString(n) ==
    IF n < 10 THEN Digits[n + 1] ELSE numberToString(n \div 10) \o Digits[(n % 10) + 1]

\* arr.join(sep) for an array of strings
RECURSIVE join(_, _)
join(arr, sep) ==
    IF arr = <<>> THEN ""
    ELSE IF Len(arr) = 1 THEN arr[1]
    ELSE arr[1] \o sep \o join(Tail(arr), sep)

\* the lines toStringInternal pushes to result, in order
RECURSIVE toStringInternal(_, _, _)
RECURSIVE toStringLoop(_, _, _, _)
\* (mutant) the continuation bar is pushed under a last sibling too
toStringLoopBars(h, a, prefixArr, i) ==
    IF i >= Len(h[a]) THEN <<>>
    ELSE LET prefix == join(prefixArr, "") \o (IF i < Len(h[a]) - 1 THEN BoxTee ELSE BoxEll)
             tree == At(h[a], i)
         IN <<prefix \o numberToString(tree.value)>>
            \o (IF isTreeBranch(tree)
                THEN toStringInternal(h, tree.children, Append(prefixArr, BoxBar))
                ELSE <<>>)
            \o toStringLoop(h, a, prefixArr, i + 1)

toStringLoop(h, a, prefixArr, i) ==
    IF i >= Len(h[a]) THEN <<>>
    ELSE LET prefix == join(prefixArr, "") \o (IF i < Len(h[a]) - 1 THEN BoxTee ELSE BoxEll)
             tree == At(h[a], i)
         IN <<prefix \o numberToString(tree.value)>>
            \o (IF isTreeBranch(tree)
                THEN toStringInternal(h, tree.children,
                         Append(prefixArr, IF i < Len(h[a]) - 1 THEN BoxBar ELSE " "))
                ELSE <<>>)
            \o toStringLoop(h, a, prefixArr, i + 1)
toStringInternal(h, a, prefixArr) == toStringLoop(h, a, prefixArr, 0)

toString(h, a) == join(toStringInternal(h, a, <<>>), "\n")

\* ------------------------------------------------------------ inputs
Comparators == {"none", "asc", "desc"}
Amounts == 0..MaxAmount

\* callers' updaters of a value: the next value (cyclically), and the constant 1
ValueUpdaters == {[v \in Values |-> (v % NumValues) + 1], [v \in Values |-> 1]}
ValuePredicates ==
    {[kind |-> "value", in |-> {1}], [kind |-> "value", in |-> {}],
     [kind |-> "index", in |-> {0}], [kind |-> "depth", in |-> {1}]}
TreePredicates == {treeFilter("leaf"), treeFilter("branch"), treeFilter("notEmptyBranch")} \cup {valueFilter(p) : p \in ValuePredicates}
Mappers == {[kind |-> k, f |-> g] : k \in {"value", "index", "depth"}, g \in ValueUpdaters}
\* the value sequences handed to valuesToPath: every one of at most MaxNodes values
ValueSeqs == UNION {[1..n -> Values] : n \in 0..MaxNodes}
\* the predicates handed to findPathByTree, and to findPath and find
FindValuePredicates == {[kind |-> "value", in |-> S] : S \in SUBSET Values}
FindTreePredicates ==
    {[kind |-> k, in |-> {}] : k \in {"true", "leaf", "branch"}} \cup FindValuePredicates
NoMapper == [kind |-> "omitted", f |-> [v \in Values |-> v]]

\* every forest of exactly n nodes, as nested trees
RECURSIVE ForestsOfSize(_)
TreesOfSize(k) ==
    (IF k = 1 THEN {[value |-> v] : v \in Values} ELSE {})
    \cup {[value |-> v, children |-> c] : v \in Values, c \in ForestsOfSize(k - 1)}
ForestsOfSize(n) ==
    IF n = 0 THEN {<<>>}
    ELSE UNION {{<<t>> \o rest : t \in TreesOfSize(k), rest \in ForestsOfSize(n - k)} : k \in 1..n}

ForestsIn == UNION {ForestsOfSize(n) : n \in 0..MaxNodes}

\* The paths a caller passes, for a receiver F (nested trees): the empty path,
\* and in every sibling collection of F every index from 0 to two past its last
\* node (a node, the position after the last, a position beyond that), and one
\* step further through a leaf and through the position after the last
RECURSIVE PathsAround(_)
PathsAround(F) ==
    {<<i>> : i \in 0..(Len(F) + 1)}
    \cup {<<Len(F), 0>>}
    \cup UNION {{<<i - 1>> \o p : p \in (IF isTreeBranch(F[i]) THEN PathsAround(F[i].children)
                                          ELSE {<<0>>})}
                : i \in 1..Len(F)}
PathsFor(F) == {<<>>} \cup PathsAround(F)

\* a caller's trees to insert: two leaves out of order, and a branch over them
UnsortedLeaves == <<[value |-> NumValues], [value |-> 1]>>
NewTreesIn == {<<>>, UnsortedLeaves, <<[value |-> 1, children |-> UnsortedLeaves]>>}
\* a caller's tree to insert: a leaf, and a branch over two leaves out of order
NewTreeIn == {[value |-> NumValues], [value |-> 1, children |-> UnsortedLeaves]}

\* ------------------------------------------------------------ state
\* heap   the arrays of the program
\* trees  this.trees of the receiver: the name of its array of roots
\* call   the method called on the receiver and its arguments
\* ret    what the call returned (r) or threw (err)
NoCall == [op |-> "new", path |-> <<>>, to |-> <<>>, amount |-> 0, newTrees |-> <<>>,
           value |-> 0, comparator |-> "none", f |-> <<>>,
           shouldKeep |-> <<>>, dropEmptyBranches |-> FALSE, mapLeaf |-> <<>>, mapBranch |-> <<>>,
           isThisIt |-> <<>>, values |-> <<>>]
NoRet == [r |-> 0, err |-> NoError]
\* caller  what the caller of a traversal has: the values next() gave it so far
\*         (got), and how many times it changed its arrays since (touches)
NoCaller == [got |-> <<>>, touches |-> 0]

\* the receiver, and the forest the call returned, as nested trees
This == Deref(heap, trees)
Returned == Deref(heap, ret.r)
PathsIn == PathsFor(This)

\* the forest of the tests; its string values are numbered: "emptyDir" 20,
\* "emptySubdir" 21, "nonEmptyDir" 30, "subdir" 40
valueA == [value |-> 5]
valueB == [value |-> 6]
valueC == [value |-> 7]
emptyDir == [value |-> 20, children |-> <<>>]
emptySubdir == [value |-> 21, children |-> <<>>]
subdir == [value |-> 40, children |-> <<valueC, emptySubdir>>]
nonEmptyDir == [value |-> 30, children |-> <<valueB, subdir>>]
testTrees == <<emptyDir, valueA, nonEmptyDir>>

\* new Forest(trees) of the tests
InitTest ==
    LET built == allocTrees(<<>>, testTrees)
    IN /\ heap = built.h
       /\ trees = built.r
       /\ call = NoCall
       /\ ret = NoRet
       /\ caller = NoCaller

\* new Forest(trees) for any caller-supplied trees
Init ==
    \E F \in ForestsIn :
        LET built == allocTrees(<<>>, F)
        IN /\ heap = built.h
           /\ trees = built.r
           /\ call = NoCall
           /\ ret = NoRet
           /\ caller = NoCaller

Fresh == call.op = "new"

\* the call c ends with the outcome res
Finish(c, res) ==
    /\ heap' = res.h
    /\ ret' = [r |-> res.r, err |-> res.err]
    /\ call' = c
    /\ UNCHANGED <<trees, caller>>

\* ------------------------------------------------------------ insert
insertTreesAt(h, a, path, newTrees, comparator) == insertAtInternal(h, a, path, newTrees, comparator)

\* [newTree]
insertTreeAt(h, a, path, newTree, comparator) ==
    LET one == Alloc(h, <<newTree>>)
    IN insertAtInternal(one.h, a, path, one.r, comparator)

insertLeafAt(h, a, path, leaf, comparator) == insertTreeAt(h, a, path, [value |-> leaf], comparator)

\* leaves is the name of the caller's array of values
insertLeavesAt(h, a, path, leaves, comparator) ==
    LET mapped == Alloc(h, [i \in 1..Len(h[leaves]) |-> [value |-> h[leaves][i]]])
    IN insertTreesAt(mapped.h, a, path, mapped.r, comparator)

\* children is the name of the caller's array
insertBranchAt(h, a, path, branch, children, comparator) ==
    IF comparator # "none"
    THEN LET newChildren == copyArray(h, children)
         IN insertTreeAt(sortInPlace(newChildren.h, newChildren.r, comparator), a, path,
                         [value |-> branch, children |-> newChildren.r], comparator)
    ELSE insertTreeAt(h, a, path, [value |-> branch, children |-> children], comparator)

InsertTreesAt ==
    /\ Fresh
    /\ \E path \in PathsIn, nt \in NewTreesIn, comparator \in Comparators :
         LET arg == allocTrees(heap, nt)
         IN Finish([NoCall EXCEPT !.op = "insertTreesAt", !.path = path, !.newTrees = nt,
                                  !.comparator = comparator],
                   insertTreesAt(arg.h, trees, path, arg.r, comparator))

\* the caller's tree object: its children, if any, are an array of the heap
InsertTreeAt ==
    /\ Fresh
    /\ \E path \in PathsIn, nt \in NewTreeIn, comparator \in Comparators :
         LET arg == IF isTreeBranch(nt) THEN allocTrees(heap, nt.children) ELSE Ok(heap, 0)
             newTree == IF isTreeBranch(nt) THEN [value |-> nt.value, children |-> arg.r]
                        ELSE nt
         IN Finish([NoCall EXCEPT !.op = "insertTreeAt", !.path = path, !.newTrees = <<nt>>,
                                  !.comparator = comparator],
                   insertTreeAt(arg.h, trees, path, newTree, comparator))

InsertLeafAt ==
    /\ Fresh
    /\ \E path \in PathsIn, leaf \in Values, comparator \in Comparators :
         Finish([NoCall EXCEPT !.op = "insertLeafAt", !.path = path, !.value = leaf,
                               !.newTrees = <<[value |-> leaf]>>, !.comparator = comparator],
                insertLeafAt(heap, trees, path, leaf, comparator))

InsertLeavesAt ==
    /\ Fresh
    /\ \E path \in PathsIn, comparator \in Comparators :
         LET arg == Alloc(heap, <<NumValues, 1>>)
         IN Finish([NoCall EXCEPT !.op = "insertLeavesAt", !.path = path,
                                  !.newTrees = UnsortedLeaves, !.comparator = comparator],
                   insertLeavesAt(arg.h, trees, path, arg.r, comparator))

InsertBranchAt ==
    /\ Fresh
    /\ \E path \in PathsIn, branch \in Values, children \in {<<>>, UnsortedLeaves},
          comparator \in Comparators :
         LET arg == allocTrees(heap, children)
         IN Finish([NoCall EXCEPT !.op = "insertBranchAt", !.path = path, !.value = branch,
                                  !.newTrees = <<[value |-> branch, children |-> children]>>,
                                  !.comparator = comparator],
                   insertBranchAt(arg.h, trees, path, branch, arg.r, comparator))

\* ------------------------------------------------------------ delete
deleteSeveralAt(h, a, path, amount) == deleteAtInternal(h, a, path, amount)
deleteAt(h, a, path) == deleteAtInternal(h, a, path, 1)

DeleteAt ==
    /\ Fresh
    /\ \E path \in PathsIn :
         Finish([NoCall EXCEPT !.op = "deleteAt", !.path = path, !.amount = 1],
                deleteAt(heap, trees, path))

DeleteSeveralAt ==
    /\ Fresh
    /\ \E path \in PathsIn, amount \in Amounts :
         Finish([NoCall EXCEPT !.op = "deleteSeveralAt", !.path = path, !.amount = amount],
                deleteSeveralAt(heap, trees, path, amount))

\* ------------------------------------------------------------ move
move(h, a, from, to, comparator) == moveSeveral(h, a, from, to, 1, comparator)

Move ==
    /\ Fresh
    /\ \E from \in PathsIn, to \in PathsIn, comparator \in {"none", "asc"} :
         Finish([NoCall EXCEPT !.op = "move", !.path = from, !.to = to, !.amount = 1,
                               !.comparator = comparator],
                move(heap, trees, from, to, comparator))

MoveSeveral ==
    /\ Fresh
    /\ \E from \in PathsIn, to \in PathsIn, amount \in Amounts, comparator \in {"none", "asc"} :
         Finish([NoCall EXCEPT !.op = "moveSeveral", !.path = from, !.to = to, !.amount = amount,
                               !.comparator = comparator],
                moveSeveral(heap, trees, from, to, amount, comparator))

\* ------------------------------------------------------------ update
updateTreeAt(h, a, path, updater, comparator) == updateInternal(h, a, path, updater, comparator, 0)
updateLeafAt(h, a, path, f, comparator) ==
    updateTreeAt(h, a, path, [kind |-> "leaf", f |-> f], comparator)
updateBranchAt(h, a, path, f, comparator) ==
    updateTreeAt(h, a, path, [kind |-> "branch", f |-> f], comparator)

\* a caller's updater replaces the node by a new leaf
UpdateTreeAt ==
    /\ Fresh
    /\ \E path \in PathsIn, v \in Values, comparator \in Comparators :
         Finish([NoCall EXCEPT !.op = "updateTreeAt", !.path = path, !.value = v,
                               !.comparator = comparator],
                updateTreeAt(heap, trees, path, [kind |-> "const", tree |-> [value |-> v]], comparator))

UpdateLeafAt ==
    /\ Fresh
    /\ \E path \in PathsIn, f \in ValueUpdaters, comparator \in Comparators :
         Finish([NoCall EXCEPT !.op = "updateLeafAt", !.path = path, !.f = f,
                               !.comparator = comparator],
                updateLeafAt(heap, trees, path, f, comparator))

UpdateBranchAt ==
    /\ Fresh
    /\ \E path \in PathsIn, f \in ValueUpdaters, comparator \in Comparators :
         Finish([NoCall EXCEPT !.op = "updateBranchAt", !.path = path, !.f = f,
                               !.comparator = comparator],
                updateBranchAt(heap, trees, path, f, comparator))

\* ------------------------------------------------------------ sort
Sort ==
    /\ Fresh
    /\ \E comparator \in {"asc", "desc"} :
         Finish([NoCall EXCEPT !.op = "sort", !.comparator = comparator],
                sort(heap, trees, comparator))

\* ------------------------------------------------------------ filter and map calls
Filter ==
    /\ Fresh
    /\ \E shouldKeep \in ValuePredicates :
         Finish([NoCall EXCEPT !.op = "filter", !.shouldKeep = shouldKeep],
                filter(heap, trees, shouldKeep))

FilterTrees ==
    /\ Fresh
    /\ \E shouldKeep \in TreePredicates :
         Finish([NoCall EXCEPT !.op = "filterTrees", !.shouldKeep = shouldKeep],
                filterTrees(heap, trees, shouldKeep))

FilterLeaves ==
    /\ Fresh
    /\ \E shouldKeep \in ValuePredicates, dropEmptyBranches \in BOOLEAN :
         Finish([NoCall EXCEPT !.op = "filterLeaves", !.shouldKeep = shouldKeep,
                               !.dropEmptyBranches = dropEmptyBranches],
                filterLeaves(heap, trees, shouldKeep, dropEmptyBranches))

Map ==
    /\ Fresh
    /\ \E mapLeaf \in Mappers, mapBranch \in Mappers \cup {NoMapper} :
         Finish([NoCall EXCEPT !.op = "map", !.mapLeaf = mapLeaf, !.mapBranch = mapBranch],
                map(heap, trees, mapLeaf, mapBranch))

\* ------------------------------------------------------------ queries
\* The five traversals return a generator object and have read nothing yet.
GetAllTrees ==
    /\ Fresh
    /\ Finish([NoCall EXCEPT !.op = "getAllTrees"], Ok(heap, getAllTrees(heap, trees)))

GetLeavesWithPaths ==
    /\ Fresh
    /\ Finish([NoCall EXCEPT !.op = "getLeavesWithPaths"], Ok(heap, getLeavesWithPaths(heap, trees)))

GetLeaves ==
    /\ Fresh
    /\ Finish([NoCall EXCEPT !.op = "getLeaves"], Ok(heap, getLeaves(heap, trees)))

GetBranchesWithPath ==
    /\ Fresh
    /\ Finish([NoCall EXCEPT !.op = "getBranchesWithPath"], Ok(heap, getBranchesWithPath(heap, trees)))

GetBranches ==
    /\ Fresh
    /\ Finish([NoCall EXCEPT !.op = "getBranches"], Ok(heap, getBranches(heap, trees)))

GeneratorOps == {"getAllTrees", "getLeavesWithPaths", "getLeaves", "getBranchesWithPath", "getBranches"}

\* a generator was returned and has not ended
Suspended == call.op \in GeneratorOps /\ ~ret.r.done

\* the caller's it.next() on the generator it was returned
GeneratorNext ==
    /\ Suspended
    /\ LET res == next(heap, ret.r)
       IN /\ ret' = [ret EXCEPT !.r = res.gen]
          /\ caller' = [caller EXCEPT !.got = IF res.done THEN @ ELSE Append(@, res.value)]
    /\ UNCHANGED <<heap, trees, call>>

\* The constructor stores the caller's array as it is, and the nodes hold the
\* caller's children arrays: between two next() the caller can change them.
\* (A change before the call gives a receiver that Init has as well; after a
\* call that is not a traversal nothing reads the arrays any more.)
\* arr.push({value})
CallerPush ==
    /\ Suspended
    /\ caller.touches < MaxTouches
    /\ \E a \in 1..Len(heap), value \in Values :
         heap' = [heap EXCEPT ![a] = Append(@, [value |-> value])]
    /\ caller' = [caller EXCEPT !.touches = @ + 1]
    /\ UNCHANGED <<trees, call, ret>>

\* arr.length = 0
CallerClear ==
    /\ Suspended
    /\ caller.touches < MaxTouches
    /\ \E a \in 1..Len(heap) :
         /\ heap[a] # <<>>
         /\ heap' = [heap EXCEPT ![a] = <<>>]
    /\ caller' = [caller EXCEPT !.touches = @ + 1]
    /\ UNCHANGED <<trees, call, ret>>

PathToTrees ==
    /\ Fresh
    /\ \E path \in PathsIn :
         Finish([NoCall EXCEPT !.op = "pathToTrees", !.path = path], pathToTrees(heap, trees, path))

GetTreeAt ==
    /\ Fresh
    /\ \E path \in PathsIn :
         Finish([NoCall EXCEPT !.op = "getTreeAt", !.path = path], getTreeAt(heap, trees, path))

GetTreesAt ==
    /\ Fresh
    /\ \E path \in PathsIn, amount \in Amounts :
         Finish([NoCall EXCEPT !.op = "getTreesAt", !.path = path, !.amount = amount],
                getTreesAt(heap, trees, path, amount))

CallToString ==
    /\ Fresh
    /\ Finish([NoCall EXCEPT !.op = "toString"], Ok(heap, toString(heap, trees)))

GetLeafTreeAt ==
    /\ Fresh
    /\ \E path \in PathsIn :
         Finish([NoCall EXCEPT !.op = "getLeafTreeAt", !.path = path], getLeafTreeAt(heap, trees, path))

GetLeafAt ==
    /\ Fresh
    /\ \E path \in PathsIn :
         Finish([NoCall EXCEPT !.op = "getLeafAt", !.path = path], getLeafAt(heap, trees, path))

GetBranchTreeAt ==
    /\ Fresh
    /\ \E path \in PathsIn :
         Finish([NoCall EXCEPT !.op = "getBranchTreeAt", !.path = path], getBranchTreeAt(heap, trees, path))

GetBranchAt ==
    /\ Fresh
    /\ \E path \in PathsIn :
         Finish([NoCall EXCEPT !.op = "getBranchAt", !.path = path], getBranchAt(heap, trees, path))

GetSiblingTreesAt ==
    /\ Fresh
    /\ \E path \in PathsIn :
         Finish([NoCall EXCEPT !.op = "getSiblingTreesAt", !.path = path], getSiblingTreesAt(heap, trees, path))

GetSiblingsAt ==
    /\ Fresh
    /\ \E path \in PathsIn :
         Finish([NoCall EXCEPT !.op = "getSiblingsAt", !.path = path], getSiblingsAt(heap, trees, path))

PathToValues ==
    /\ Fresh
    /\ \E path \in PathsIn :
         Finish([NoCall EXCEPT !.op = "pathToValues", !.path = path], pathToValues(heap, trees, path))

ValuesToPath ==
    /\ Fresh
    /\ \E values \in ValueSeqs :
         Finish([NoCall EXCEPT !.op = "valuesToPath", !.values = values],
                valuesToPath(heap, trees, values))

FindPathByTree ==
    /\ Fresh
    /\ \E isThisIt \in FindTreePredicates :
         Finish([NoCall EXCEPT !.op = "findPathByTree", !.isThisIt = isThisIt],
                Ok(heap, findPathByTree(heap, trees, isThisIt)))

FindPath ==
    /\ Fresh
    /\ \E isThisIt \in FindValuePredicates :
         Finish([NoCall EXCEPT !.op = "findPath", !.isThisIt = isThisIt],
                Ok(heap, findPath(heap, trees, isThisIt)))

Find ==
    /\ Fresh
    /\ \E isThisIs \in FindValuePredicates :
         Finish([NoCall EXCEPT !.op = "find", !.isThisIt = isThisIs],
                Ok(heap, find(heap, trees, isThisIs)))

\* ------------------------------------------------------------ specifications
InsertNext == InsertTreesAt \/ InsertTreeAt \/ InsertLeafAt \/ InsertLeavesAt \/ InsertBranchAt
DeleteNext == DeleteAt \/ DeleteSeveralAt
MoveNext == Move \/ MoveSeveral
UpdateNext == UpdateTreeAt \/ UpdateLeafAt \/ UpdateBranchAt
FilterNext == Filter \/ FilterTrees \/ FilterLeaves
PointNext ==
    \/ GetLeafTreeAt \/ GetLeafAt \/ GetBranchTreeAt \/ GetBranchAt
    \/ GetSiblingTreesAt \/ GetSiblingsAt \/ PathToValues
FindNext == ValuesToPath \/ FindPathByTree \/ FindPath \/ Find
TraverseNext ==
    \/ GetAllTrees \/ GetLeavesWithPaths \/ GetLeaves \/ GetBranchesWithPath \/ GetBranches
    \/ GeneratorNext \/ CallerPush \/ CallerClear
QueryNext == PathToTrees \/ GetTreeAt \/ GetTreesAt \/ CallToString \/ PointNext

Next ==
    \/ InsertTreesAt \/ InsertTreeAt \/ InsertLeafAt \/ InsertLeavesAt \/ InsertBranchAt
    \/ DeleteAt \/ DeleteSeveralAt
    \/ Move \/ MoveSeveral
    \/ UpdateTreeAt \/ UpdateLeafAt \/ UpdateBranchAt
    \/ Sort
    \/ Filter \/ FilterTrees \/ FilterLeaves \/ Map
    \/ TraverseNext
    \/ PathToTrees \/ GetTreeAt \/ GetTreesAt \/ CallToString
    \/ PointNext
    \/ FindNext

Spec == Init /\ [][Next]_vars
SpecInsert == Init /\ [][InsertNext]_vars
SpecInsertLeaf == Init /\ [][InsertLeafAt]_vars
SpecDelete == Init /\ [][DeleteNext]_vars
SpecMove == Init /\ [][MoveNext]_vars
SpecMoveOne == Init /\ [][Move]_vars
SpecMoveTest == InitTest /\ [][Move]_vars
SpecUpdate == Init /\ [][UpdateNext]_vars
SpecQuery == Init /\ [][QueryNext]_vars
SpecTraverse == Init /\ [][TraverseNext]_vars
SpecAllTrees == Init /\ [][GetAllTrees \/ GeneratorNext \/ CallerPush \/ CallerClear]_vars
SpecFind == Init /\ [][FindNext]_vars
SpecSort == Init /\ [][Sort]_vars
SpecToString == Init /\ [][CallToString]_vars
SpecFilter == Init /\ [][FilterNext]_vars
SpecMap == Init /\ [][Map]_vars

\* ------------------------------------------------------------ what the claims speak of
\* Forests as nested trees (This, Returned), addressed by paths.

\* the paths of the nodes of the forest F
RECURSIVE PathsOf(_)
PathsOf(F) ==
    UNION {{<<i - 1>>} \cup (IF isTreeBranch(F[i])
                             THEN {<<i - 1>> \o p : p \in PathsOf(F[i].children)}
                             ELSE {})
           : i \in 1..Len(F)}

\* the node of F at a path of PathsOf(F)
RECURSIVE NodeAt(_, _)
NodeAt(F, p) ==
    IF Len(p) = 1 THEN F[p[1] + 1] ELSE NodeAt(F[p[1] + 1].children, Tail(p))

\* the parent prefix and the final index of a non-empty path
ParentOf(p) == SubSeq(p, 1, Len(p) - 1)
LastOf(p) == p[Len(p)]

\* q addresses a sibling collection of F: the root list, or the children of a branch
HasColl(F, q) == q = <<>> \/ (q \in PathsOf(F) /\ isTreeBranch(NodeAt(F, q)))
Coll(F, q) == IF q = <<>> THEN F ELSE NodeAt(F, q).children

\* F with the sibling collection at q replaced by S, everything else as it is
RECURSIVE WithColl(_, _, _)
WithColl(F, q, S) ==
    IF q = <<>> THEN S
    ELSE [F EXCEPT ![q[1] + 1] = [value |-> @.value, children |-> WithColl(@.children, Tail(q), S)]]

\* S[from..to) for 0-based bounds within S
Run(S, from, to) == IF to <= from THEN <<>> ELSE SubSeq(S, from + 1, to)

IsPrefix(p, q) == Len(p) <= Len(q) /\ SubSeq(q, 1, Len(p)) = p

\* the pairs getAllTrees() of the forest held by the array a yields when it is
\* drained at once
Drained(h, a) == getTreeNodesInternal(h, a, [kind |-> "true"], <<>>)

ReturnsForest == ~Threw(ret)
InsertOps == {"insertTreesAt", "insertTreeAt", "insertLeafAt", "insertLeavesAt", "insertBranchAt"}
DeleteOps == {"deleteAt", "deleteSeveralAt"}
MoveOps == {"move", "moveSeveral"}

\* ------------------------------------------------------------ claims

\* C1: no call changes the receiver: whatever a call does to the heap (copies,
\* in-place sorts, a throw half way), the receiver's trees are afterwards the
\* same at every depth; so after every next() of a traversal.  (The steps in
\* which the caller itself changes its arrays are not calls.)
ReceiverUnchanged ==
    [][caller'.touches = caller.touches => Deref(heap', trees') = Deref(heap, trees)]_vars

\* a call with a comparator returned a forest that is ordered differently
ReceiverUnchangedWitness ==
    /\ call.op \in {"updateLeafAt", "insertBranchAt", "moveSeveral", "sort"}
    /\ call.comparator # "none"
    /\ ReturnsForest
    /\ Len(Returned) = Len(This)
    /\ \E i \in 1..Len(This) : Returned[i].value # This[i].value

\* C2: path round trip: getTreeAt of the path of every pair that getAllTrees
\* has yielded returns, and returns the node of that pair (the caller leaving
\* its arrays as they were).
PathRoundTrip ==
    (call.op = "getAllTrees" /\ caller.touches = 0) =>
        \A i \in 1..Len(caller.got) :
            LET got == getTreeAt(heap, trees, caller.got[i][2])
            IN ~Threw(got) /\ got.r = caller.got[i][1]

\* getAllTrees yielded a node three levels down
PathRoundTripWitness ==
    /\ call.op = "getAllTrees"
    /\ caller.touches = 0
    /\ \E i \in 1..Len(caller.got) : Len(caller.got[i][2]) = 3

\* p comes before q in depth-first pre-order: p is an ancestor of q, or p is in
\* the subtree of an earlier sibling at the first depth where they differ
RECURSIVE PreOrderBefore(_, _)
PreOrderBefore(p, q) ==
    IF p = <<>> THEN q # <<>>
    ELSE IF q = <<>> THEN FALSE
    ELSE IF p[1] # q[1] THEN p[1] < q[1]
    ELSE PreOrderBefore(Tail(p), Tail(q))

\* C3: getAllTrees yields every node exactly once, in pre-order, each paired
\* with the path that locates it: at every point of the traversal the pairs
\* yielded so far are nodes of the forest with their paths, in pre-order, none
\* that comes before a yielded one is left out, and when the traversal has
\* ended every node has been yielded (the caller leaving its arrays as they
\* were).
PreOrderTraversal ==
    (call.op = "getAllTrees" /\ caller.touches = 0) =>
        LET got == caller.got
        IN /\ \A i \in 1..Len(got) :
                 /\ got[i][2] \in PathsOf(This)
                 /\ DerefNode(heap, got[i][1]) = NodeAt(This, got[i][2])
           /\ \A i, j \in 1..Len(got) : i < j => PreOrderBefore(got[i][2], got[j][2])
           /\ \A i \in 1..Len(got) : \A p \in PathsOf(This) :
                 PreOrderBefore(p, got[i][2]) => \E j \in 1..(i - 1) : got[j][2] = p
           /\ ret.r.done => {got[i][2] : i \in 1..Len(got)} = PathsOf(This)

\* a branch with a child is followed by a sibling: the child comes between them
PreOrderTraversalWitness ==
    /\ call.op = "getAllTrees"
    /\ caller.touches = 0
    /\ ret.r.done
    /\ Len(caller.got) = 3
    /\ caller.got[1][2] = <<0>> /\ caller.got[2][2] = <<0, 0>> /\ caller.got[3][2] = <<1>>

\* a traversal that has ended gave what a traversal drained at once gives
TraversalAsDrained ==
    (call.op = "getAllTrees" /\ caller.touches = 0 /\ ret.r.done)
    => caller.got = Drained(heap, trees)

\* a traversal yielded a node that the caller pushed after the call
TraversalSeesPush ==
    /\ call.op = "getAllTrees"
    /\ caller.touches = 1
    /\ ret.r.done
    /\ Len(caller.got) = MaxNodes + 1

\* the caller emptied the root array before the first next(): nothing is yielded
TraversalSeesClear ==
    /\ call.op = "getAllTrees"
    /\ caller.touches = 1
    /\ ret.r.done
    /\ Len(caller.got) = 0
    /\ This = <<>>

\* C4: insert-shift: without comparator, inserting at final index k <= |S| of an
\* existing sibling collection S gives S[0..k), the new trees, S[k..) in that
\* collection, and leaves every other collection as it was.
InsertShift ==
    (/\ call.op \in InsertOps
     /\ call.comparator = "none"
     /\ call.path # <<>>
     /\ HasColl(This, ParentOf(call.path))
     /\ LastOf(call.path) <= Len(Coll(This, ParentOf(call.path))))
    => LET q == ParentOf(call.path)
           k == LastOf(call.path)
           S == Coll(This, q)
       IN /\ ReturnsForest
          /\ Returned = WithColl(This, q, Run(S, 0, k) \o call.newTrees \o Run(S, k, Len(S)))

\* two trees were inserted before an existing node of a branch
InsertShiftWitness ==
    /\ call.op = "insertTreesAt"
    /\ call.comparator = "none"
    /\ Len(call.path) = 2
    /\ Len(call.newTrees) = 2
    /\ ReturnsForest
    /\ HasColl(This, ParentOf(call.path))
    /\ LastOf(call.path) < Len(Coll(This, ParentOf(call.path)))

\* deleteAt(p) called on the forest that insertLeafAt(p, v) returned gives the receiver back
DeleteUndoesInsert ==
    LET undone == deleteAt(heap, ret.r, call.path)
    IN ~Threw(undone) /\ Deref(undone.h, undone.r) = This

\* C5 as claimed: for every path p for which insertLeafAt(p, v) succeeds,
\* insertLeafAt(p, v).deleteAt(p) is structurally equal to the receiver.
InsertDeleteInverseWheneverInserted ==
    (call.op = "insertLeafAt" /\ call.comparator = "none" /\ ReturnsForest)
    => DeleteUndoesInsert

\* C5 amended: for every path p for which insertLeafAt(p, v) succeeds and whose
\* final index is at most the size of the sibling collection it addresses,
\* insertLeafAt(p, v).deleteAt(p) is structurally equal to the receiver.
InsertDeleteInverse ==
    (/\ call.op = "insertLeafAt" /\ call.comparator = "none" /\ ReturnsForest
     /\ LastOf(call.path) <= Len(Coll(This, ParentOf(call.path))))
    => DeleteUndoesInsert

\* a leaf was inserted before an existing node of a branch
InsertDeleteInverseWitness ==
    /\ call.op = "insertLeafAt" /\ call.comparator = "none" /\ ReturnsForest
    /\ Len(call.path) = 2
    /\ LastOf(call.path) < Len(Coll(This, ParentOf(call.path)))

\* C6: delete: on a path of an existing node at final index k of S the result has
\* S[0..k), S[k+amount..) in that collection and every other collection as it was.
DeleteShift ==
    (call.op \in DeleteOps /\ call.path \in PathsOf(This))
    => LET q == ParentOf(call.path)
           k == LastOf(call.path)
           S == Coll(This, q)
       IN /\ ReturnsForest
          /\ Returned = WithColl(This, q, Run(S, 0, k) \o Run(S, k + call.amount, Len(S)))

\* two nodes were deleted and a later sibling moved down by two
DeleteShiftWitness ==
    /\ call.op = "deleteSeveralAt"
    /\ call.amount = 2
    /\ call.path \in PathsOf(This)
    /\ ReturnsForest
    /\ LastOf(call.path) + 2 < Len(Coll(This, ParentOf(call.path)))

\* the concatenation of a sequence of sequences
RECURSIVE Concat(_)
Concat(ss) == IF ss = <<>> THEN <<>> ELSE Head(ss) \o Concat(Tail(ss))

\* p is the path of one of the amount siblings that start at from
IsMoved(p, from, amount) ==
    /\ Len(p) = Len(from)
    /\ ParentOf(p) = ParentOf(from)
    /\ LastOf(p) >= LastOf(from)
    /\ LastOf(p) < LastOf(from) + amount

\* The sibling collection C, found at prefix q of the receiver, after the moved
\* nodes were taken out of the forest and the run M put immediately before the
\* node at path to (or at the end of the collection whose one-past-the-end
\* position to is): paths are those of the receiver.
RECURSIVE Placed(_, _, _, _, _, _)
Placed(C, q, from, amount, to, M) ==
    Concat([i \in 1..Len(C) |->
               (IF Append(q, i - 1) = to THEN M ELSE <<>>)
               \o (IF IsMoved(Append(q, i - 1), from, amount) THEN <<>>
                   ELSE IF isTreeBranch(C[i])
                        THEN <<[value |-> C[i].value,
                                children |-> Placed(C[i].children, Append(q, i - 1), from, amount, to, M)]>>
                        ELSE <<C[i]>>)])
    \o (IF Append(q, Len(C)) = to THEN M ELSE <<>>)

\* from addresses amount existing siblings; to addresses an existing node or the
\* position after the last node of an existing collection, and is neither a
\* moved node nor inside one
MoveAddresses(from, to, amount) ==
    /\ amount >= 1
    /\ from \in PathsOf(This)
    /\ LastOf(from) + amount <= Len(Coll(This, ParentOf(from)))
    /\ to # <<>>
    /\ HasColl(This, ParentOf(to))
    /\ LastOf(to) <= Len(Coll(This, ParentOf(to)))
    /\ \A n \in 1..Len(to) : ~IsMoved(SubSeq(to, 1, n), from, amount)

\* C7: move placement: when from addresses amount existing siblings and to an
\* existing node X (or the end of an existing collection) outside the moved
\* nodes, the result has the moved nodes, in order, immediately before X (at the
\* end of that collection), wherever from and to lie.
MovePlacement ==
    (/\ call.op \in MoveOps
     /\ call.comparator = "none"
     /\ MoveAddresses(call.path, call.to, call.amount)
     /\ ReturnsForest)
    => LET from == call.path
           M == Run(Coll(This, ParentOf(from)), LastOf(from), LastOf(from) + call.amount)
       IN Returned = Placed(This, <<>>, from, call.amount, call.to, M)

\* C8: move no-op: moving an existing node to its own path, or to the next
\* index under the same parent, renders as the receiver does.
MoveNoOp ==
    (/\ call.op = "move"
     /\ call.comparator = "none"
     /\ call.path \in PathsOf(This)
     /\ \/ call.to = call.path
        \/ call.to = Append(ParentOf(call.path), LastOf(call.path) + 1))
    => /\ ReturnsForest
       /\ toString(heap, ret.r) = toString(heap, trees)

\* a child was moved to the index of its next sibling
MoveNoOpWitness ==
    /\ call.op = "move"
    /\ call.comparator = "none"
    /\ Len(call.path) = 2
    /\ call.path \in PathsOf(This)
    /\ call.to = Append(ParentOf(call.path), LastOf(call.path) + 1)
    /\ call.to \in PathsOf(This)
    /\ ReturnsForest

UpdateOps == {"updateTreeAt", "updateLeafAt", "updateBranchAt"}

\* C9: updateLeafAt on a leaf and updateBranchAt on a branch, without
\* comparator: the node at the path keeps its variant, gets the value f(old
\* value) and, as a branch, keeps its children; no other node changes and the
\* set of paths is the same.
UpdateOnlyAtPath ==
    (/\ call.op \in {"updateLeafAt", "updateBranchAt"}
     /\ call.comparator = "none"
     /\ call.path \in PathsOf(This)
     /\ isTreeBranch(NodeAt(This, call.path)) = (call.op = "updateBranchAt"))
    => /\ ReturnsForest
       /\ PathsOf(Returned) = PathsOf(This)
       /\ LET old == NodeAt(This, call.path)
              new == NodeAt(Returned, call.path)
          IN /\ isTreeBranch(new) = isTreeBranch(old)
             /\ new.value = call.f[old.value]
             /\ isTreeBranch(old) => new.children = old.children
       /\ \A p \in PathsOf(This) :
             IF IsPrefix(p, call.path)
             THEN p # call.path =>
                    /\ isTreeBranch(NodeAt(Returned, p))
                    /\ NodeAt(Returned, p).value = NodeAt(This, p).value
             ELSE NodeAt(Returned, p) = NodeAt(This, p)

\* the value of a branch that has a child and a sibling was changed
UpdateOnlyAtPathWitness ==
    /\ call.op = "updateBranchAt"
    /\ call.comparator = "none"
    /\ ReturnsForest
    /\ Len(This) = 2
    /\ call.path \in PathsOf(This)
    /\ Len(NodeAt(This, call.path).children) = 1
    /\ NodeAt(Returned, call.path).value # NodeAt(This, call.path).value

\* the node an update call puts in the place of old
UpdatedNode(old) ==
    CASE call.op = "updateLeafAt" -> [value |-> call.f[old.value]]
      [] call.op = "updateBranchAt" -> [value |-> call.f[old.value], children |-> old.children]
      [] call.op = "updateTreeAt" -> [value |-> call.value]

\* F with the node at path replaced by new and then only the sibling collection
\* that holds it sorted
SortedAtPath(F, path, new, comparator) ==
    LET S == Coll(F, ParentOf(path))
    IN WithColl(F, ParentOf(path), sortArr([S EXCEPT ![LastOf(path) + 1] = new], comparator))

\* F with the node at path replaced by new and then every sibling collection
\* on the way from the root list to it sorted
RECURSIVE SortedAlongPath(_, _, _, _)
SortedAlongPath(F, path, new, comparator) ==
    sortArr([F EXCEPT ![path[1] + 1] =
                IF Len(path) = 1 THEN new
                ELSE [value |-> @.value,
                      children |-> SortedAlongPath(@.children, Tail(path), new, comparator)]],
            comparator)

\* C10 as claimed: an update with a comparator re-sorts only the sibling
\* collection that directly contains the updated node; the collections of its
\* ancestors and the root list keep the order they have in the receiver.
UpdateSortsOnlyContaining ==
    (call.op \in UpdateOps /\ call.comparator # "none" /\ ReturnsForest)
    => Returned = SortedAtPath(This, call.path, UpdatedNode(NodeAt(This, call.path)), call.comparator)

\* C10 amended: an update with a comparator re-sorts every sibling collection
\* on the way from the root list down to the collection that contains the
\* updated node; every other sibling collection keeps its order.
UpdateSortsAlongPath ==
    (call.op \in UpdateOps /\ call.comparator # "none" /\ ReturnsForest)
    => Returned = SortedAlongPath(This, call.path, UpdatedNode(NodeAt(This, call.path)), call.comparator)

\* a leaf under a branch was updated and the root list came back in another order
UpdateSortsAlongPathWitness ==
    /\ call.op = "updateLeafAt"
    /\ call.comparator # "none"
    /\ ReturnsForest
    /\ Len(call.path) = 2
    /\ \E i \in 1..Len(This) : Returned[i].value # This[i].value

\* the trees an insert call hands to insertAtInternal: insertBranchAt sorts a
\* copy of the children it was given before it wraps them in the new branch
InsertedTrees ==
    IF call.op = "insertBranchAt"
    THEN <<[value |-> call.value, children |-> sortArr(call.newTrees[1].children, call.comparator)]>>
    ELSE call.newTrees

\* C11 as claimed: an insert with a comparator sorts exactly the sibling
\* collection that received the insertion; every other collection, the children
\* of the inserted nodes included, is as it was supplied.
InsertSortsOnlyReceiving ==
    (/\ call.op \in InsertOps
     /\ call.comparator # "none"
     /\ call.path # <<>>
     /\ HasColl(This, ParentOf(call.path)))
    => LET q == ParentOf(call.path)
       IN /\ ReturnsForest
          /\ Returned = WithColl(This, q,
                sortArr(insertElements(Coll(This, q), call.newTrees, LastOf(call.path)), call.comparator))

\* C11 amended: an insert with a comparator sorts the sibling collection that
\* received the insertion and, for insertBranchAt, the children list supplied
\* for the new branch; every other collection is as it was supplied.
InsertSortsReceiving ==
    (/\ call.op \in InsertOps
     /\ call.comparator # "none"
     /\ call.path # <<>>
     /\ HasColl(This, ParentOf(call.path)))
    => LET q == ParentOf(call.path)
       IN /\ ReturnsForest
          /\ Returned = WithColl(This, q,
                sortArr(insertElements(Coll(This, q), InsertedTrees, LastOf(call.path)), call.comparator))

\* trees were inserted, with a comparator, under a branch of a root list that
\* is not in the comparator's order, and the branch's children were re-ordered
InsertSortsReceivingWitness ==
    /\ call.op = "insertTreesAt"
    /\ call.comparator = "asc"
    /\ Len(call.path) = 2
    /\ ReturnsForest
    /\ Len(This) = 2
    /\ This[1].value > This[2].value
    /\ call.newTrees = UnsortedLeaves
    /\ Coll(Returned, ParentOf(call.path)) # insertElements(Coll(This, ParentOf(call.path)), call.newTrees, LastOf(call.path))

\* the depths of a path that offend in the forest F: d offends when the prefix
\* before it addresses a sibling collection and either path[d] has no element
\* there, or d is not the last depth and the node there is a leaf
Offends(F, path, d) ==
    LET q == SubSeq(path, 1, d)
    IN /\ HasColl(F, q)
       /\ \/ path[d + 1] \notin 0..(Len(Coll(F, q)) - 1)
          \/ d < Len(path) - 1 /\ ~isTreeBranch(Coll(F, q)[path[d + 1] + 1])

\* the error the claim gives the offending depth d
OffenceAt(F, path, d) ==
    IF path[d + 1] \notin 0..(Len(Coll(F, SubSeq(path, 1, d))) - 1)
    THEN errorOutOfBounds(path[d + 1], d)
    ELSE errorNotBranchAt(path[d + 1], d)

\* C12: pathToTrees of a non-empty path raises at the first offending depth d,
\* OutOfBounds(path[d], d) when path[d] has no element there and otherwise
\* ExpectedBranch(path[d], d); when no depth offends it returns len(path) nodes,
\* the d-th being the node at path[0..d].
PathToTreesContract ==
    (call.op = "pathToTrees" /\ call.path # <<>>)
    => LET path == call.path
           bad == {d \in 0..(Len(path) - 1) : Offends(This, path, d)}
       IN IF bad # {}
          THEN /\ Threw(ret)
               /\ \E d \in bad : (\A e \in bad : d <= e) /\ ret.err = OffenceAt(This, path, d)
          ELSE /\ ~Threw(ret)
               /\ Len(ret.r) = Len(path)
               /\ \A d \in 1..Len(path) :
                     DerefNode(heap, ret.r[d]) = NodeAt(This, SubSeq(path, 1, d))

\* pathToTrees met a leaf at depth 1 of a longer path
PathToTreesContractWitness ==
    /\ call.op = "pathToTrees"
    /\ Len(call.path) = 3
    /\ ret.err = errorNotBranchAt(call.path[2], 1)

\* C13: every edit given an empty path raises ZeroLengthPath and no other
\* error: the inserts, the deletes, the updates, and the moves with an empty
\* from or an empty to.
EmptyPathRaisesZeroLength ==
    (/\ call.op \in InsertOps \cup DeleteOps \cup UpdateOps \cup MoveOps
     /\ \/ call.path = <<>>
        \/ call.op \in MoveOps /\ call.to = <<>>)
    => ret.err = errorZeroLengthPath

PathQueryOps ==
    {"pathToTrees", "pathToValues", "getTreeAt", "getLeafTreeAt", "getLeafAt",
     "getBranchTreeAt", "getBranchAt", "getSiblingTreesAt", "getSiblingsAt"}

\* C14: every query that takes a path raises an error when the path is empty.
EmptyPathQueryRaises ==
    (call.op \in PathQueryOps /\ call.path = <<>>) => Threw(ret)

\* the values of the nodes along an existing path of F
ValuesAlong(F, p) == [d \in 1..Len(p) |-> NodeAt(F, SubSeq(p, 1, d)).value]

\* The greedy scan of the claim in the collection C: at each depth the
\* lowest-index node whose value is the next value is selected; the outcome is
\* "null" when none has it, "leaf" when the selected node is a leaf and values
\* remain, and otherwise the path of the selected nodes behind prefix.
RECURSIVE GreedyMatch(_, _, _)
GreedyMatch(C, values, prefix) ==
    LET hits == {i \in 1..Len(C) : C[i].value = values[1]} IN
    IF hits = {} THEN [kind |-> "null", path |-> <<>>]
    ELSE LET i == CHOOSE i \in hits : \A j \in hits : i <= j IN
         IF Len(values) = 1 THEN [kind |-> "path", path |-> Append(prefix, i - 1)]
         ELSE IF ~isTreeBranch(C[i]) THEN [kind |-> "leaf", path |-> <<>>]
         ELSE GreedyMatch(C[i].children, Tail(values), Append(prefix, i - 1))

\* C15: valuesToPath of a non-empty value sequence scans greedily without
\* backtracking: it returns null when no node matches at some depth, raises
\* ExpectedBranch when the selected node is a leaf while values remain, and
\* otherwise returns the path of the selected nodes, which has the length of
\* the values and whose pathToValues is the values.
ValuesToPathGreedy ==
    (call.op = "valuesToPath" /\ call.values # <<>>)
    => LET scan == GreedyMatch(This, call.values, <<>>) IN
       CASE scan.kind = "null" -> ~Threw(ret) /\ ret.r = Null
         [] scan.kind = "leaf" -> ret.err = errorNotBranch
         [] scan.kind = "path" ->
               /\ ~Threw(ret)
               /\ ret.r = NotNull(scan.path)
               /\ Len(scan.path) = Len(call.values)
               /\ pathToValues(heap, trees, scan.path) = Ok(heap, call.values)

\* the first root with the first value is a leaf, a later root with it is a
\* branch that has the second value: valuesToPath raised ExpectedBranch
ValuesToPathGreedyWitness ==
    /\ call.op = "valuesToPath"
    /\ Len(call.values) = 2
    /\ ret.err = errorNotBranch
    /\ \E p \in PathsOf(This) : ValuesAlong(This, p) = call.values

\* the predicate of a find call holds of the node n (a nested tree)
Matches(n) == holds(call.isThisIt, n)

\* p is the first path of This, in pre-order, whose node matches
FirstMatch(p) ==
    /\ p \in PathsOf(This)
    /\ Matches(NodeAt(This, p))
    /\ \A q \in PathsOf(This) : Matches(NodeAt(This, q)) => (q = p \/ PreOrderBefore(p, q))

\* C16: findPathByTree and findPath return the path of the first node in
\* pre-order that satisfies the predicate and find returns its value; each
\* returns null when no node satisfies it.
FindFirstInPreOrder ==
    (call.op \in {"findPathByTree", "findPath", "find"})
    => IF \A q \in PathsOf(This) : ~Matches(NodeAt(This, q))
       THEN ret.r = Null
       ELSE \E p \in PathsOf(This) :
              /\ FirstMatch(p)
              /\ ret.r = NotNull(IF call.op = "find" THEN NodeAt(This, p).value ELSE p)

\* find returned the value of a node below the first root although a later
\* root matches as well
FindFirstInPreOrderWitness ==
    /\ call.op = "find"
    /\ Len(This) = 2
    /\ call.isThisIt.in = Values \ {This[1].value}
    /\ isTreeBranch(This[1])
    /\ Len(This[1].children) = 1
    /\ This[1].children[1].value # This[2].value
    /\ ret.r = NotNull(This[1].children[1].value)

\* a is a subsequence of b: a can be had from b by leaving elements out
RECURSIVE IsSubseq(_, _)
IsSubseq(a, b) ==
    IF a = <<>> THEN TRUE
    ELSE IF b = <<>> THEN FALSE
    ELSE IF Head(a) = Head(b) THEN IsSubseq(Tail(a), Tail(b))
    ELSE IsSubseq(a, Tail(b))

\* the values of the nodes getAllTrees yields for the forest held by the array a
YieldedValues(a) ==
    LET all == Drained(heap, a) IN [i \in 1..Len(all) |-> all[i][1].value]

\* the predicate given to filterTrees does not look at the path
PathIndependent(shouldKeep) ==
    \/ shouldKeep.kind \in {"leaf", "branch", "notEmptyBranch"}
    \/ shouldKeep.kind = "filter" /\ shouldKeep.of.kind = "value"

\* C17: filter monotonicity: for a predicate p that does not depend on the
\* path, the values filterTrees(p).getAllTrees() yields are, in order, a
\* subsequence of those getAllTrees() yields on the receiver, and every node
\* yielded from the filtered forest satisfies p.
FilterMonotone ==
    (call.op = "filterTrees" /\ PathIndependent(call.shouldKeep))
    => /\ ReturnsForest
       /\ IsSubseq(YieldedValues(ret.r), YieldedValues(trees))
       /\ LET all == Drained(heap, ret.r)
          IN \A i \in 1..Len(all) : keepsTree(heap, call.shouldKeep, all[i][1], all[i][2])

\* a branch was dropped because filtering emptied it, and a node was kept
FilterMonotoneWitness ==
    /\ call.op = "filterTrees"
    /\ call.shouldKeep.kind = "notEmptyBranch"
    /\ ReturnsForest
    /\ Len(YieldedValues(ret.r)) = 1
    /\ Len(YieldedValues(trees)) = 3
    /\ \E p \in PathsOf(This) : isTreeBranch(NodeAt(This, p)) /\ Len(NodeAt(This, p).children) > 0

\* What the claim keeps of the sibling collection C found at path q of the
\* receiver: a leaf when the predicate holds of its value and its path in the
\* receiver, a branch when dropEmptyBranches is false or a child of it is left.
RECURSIVE LeavesKept(_, _, _, _)
LeavesKept(C, q, shouldKeep, dropEmptyBranches) ==
    Concat([i \in 1..Len(C) |->
        IF isTreeBranch(C[i])
        THEN LET left == LeavesKept(C[i].children, Append(q, i - 1), shouldKeep, dropEmptyBranches)
             IN IF ~dropEmptyBranches \/ Len(left) > 0
                THEN <<[value |-> C[i].value, children |-> left]>>
                ELSE <<>>
        ELSE IF keepsValue(shouldKeep, C[i].value, Append(q, i - 1)) THEN <<C[i]>> ELSE <<>>])

\* the values of the branches of the forest held by the array a, in pre-order
YieldedBranches(a) ==
    LET all == getTreeNodesInternal(heap, a, [kind |-> "branch"], <<>>)
    IN [i \in 1..Len(all) |-> all[i][1].value]

\* C18: filterLeaves keeps a leaf iff the predicate holds of its value and its
\* path in the receiver and its ancestors are kept, and a branch iff
\* dropEmptyBranches is false or a child of it is left after filtering; so
\* without dropEmptyBranches every branch survives, in order, and with it no
\* branch of the result is empty.
FilterLeavesKeeps ==
    (call.op = "filterLeaves")
    => /\ ReturnsForest
       /\ Returned = LeavesKept(This, <<>>, call.shouldKeep, call.dropEmptyBranches)
       /\ ~call.dropEmptyBranches => YieldedBranches(ret.r) = YieldedBranches(trees)
       /\ call.dropEmptyBranches =>
             \A p \in PathsOf(Returned) :
                isTreeBranch(NodeAt(Returned, p)) => Len(NodeAt(Returned, p).children) > 0

\* with dropEmptyBranches and a predicate on the path, a branch that was empty
\* in the receiver was dropped and a leaf was kept
FilterLeavesKeepsWitness ==
    /\ call.op = "filterLeaves"
    /\ call.dropEmptyBranches
    /\ call.shouldKeep.kind = "index"
    /\ ReturnsForest
    /\ Len(Returned) > 0
    /\ \E p \in PathsOf(This) : isTreeBranch(NodeAt(This, p)) /\ Len(NodeAt(This, p).children) = 0
    /\ \E p \in PathsOf(This) : ~isTreeBranch(NodeAt(This, p)) /\ LastOf(p) # 0

\* C19: map returns a forest of the receiver's shape (same paths, same variant
\* at each path) whose value at each path p is mapLeaf(v, p) for a leaf and
\* mapBranch(v, p) for a branch, v being the receiver's value at p; branch
\* values are unchanged when mapBranch is omitted.
MapKeepsShape ==
    (call.op = "map")
    => /\ ReturnsForest
       /\ PathsOf(Returned) = PathsOf(This)
       /\ \A p \in PathsOf(This) :
             LET old == NodeAt(This, p)
                 new == NodeAt(Returned, p)
             IN /\ isTreeBranch(new) = isTreeBranch(old)
                /\ new.value = IF ~isTreeBranch(old) THEN mapValue(call.mapLeaf, old.value, p)
                               ELSE IF call.mapBranch.kind = "omitted" THEN old.value
                               ELSE mapValue(call.mapBranch, old.value, p)

\* map without mapBranch, with a mapLeaf that looks at the path, changed a leaf
\* below a branch in a forest that has an empty branch
MapKeepsShapeWitness ==
    /\ call.op = "map"
    /\ call.mapBranch.kind = "omitted"
    /\ call.mapLeaf.kind = "depth"
    /\ ReturnsForest
    /\ \E p \in PathsOf(This) : isTreeBranch(NodeAt(This, p)) /\ Len(NodeAt(This, p).children) = 0
    /\ \E p \in PathsOf(This) :
          /\ Len(p) = 2
          /\ ~isTreeBranch(NodeAt(This, p))
          /\ NodeAt(Returned, p).value # NodeAt(This, p).value

\* the sibling collection C is in the order of the comparator
Ordered(C, comparator) ==
    \A i \in 1..(Len(C) - 1) : compare(comparator, C[i], C[i + 1]) <= 0

\* the ways to rearrange n elements
Rearrangements(n) == {f \in [1..n -> 1..n] : \A i, j \in 1..n : f[i] = f[j] => i = j}

\* R is the collection C sorted at every depth: R is ordered and holds the
\* nodes of C rearranged, each with its value and variant and, for a branch,
\* with its own children sorted at every depth
RECURSIVE SortedThroughout(_, _, _)
SortedThroughout(R, C, comparator) ==
    /\ Len(R) = Len(C)
    /\ Ordered(R, comparator)
    /\ \E f \in Rearrangements(Len(C)) :
          \A i \in 1..Len(C) :
             /\ R[i].value = C[f[i]].value
             /\ isTreeBranch(R[i]) = isTreeBranch(C[f[i]])
             /\ isTreeBranch(R[i]) => SortedThroughout(R[i].children, C[f[i]].children, comparator)

\* C20: sort returns a forest in which the root list and the children of every
\* branch are in the comparator's order and in which every sibling collection
\* is a rearrangement of the receiver's: each node keeps its parent, its value
\* and its descendants.
SortOrdersEveryDepth ==
    (call.op = "sort")
    => /\ ReturnsForest
       /\ SortedThroughout(Returned, This, call.comparator)
       /\ \A p \in PathsOf(Returned) :
             isTreeBranch(NodeAt(Returned, p)) => Ordered(NodeAt(Returned, p).children, call.comparator)

\* the children of a branch came back in another order
SortOrdersEveryDepthWitness ==
    /\ call.op = "sort"
    /\ ReturnsForest
    /\ Len(This) = 1
    /\ isTreeBranch(This[1])
    /\ Len(This[1].children) = 2
    /\ Returned[1].children # This[1].children

\* the node at the existing path p of F has a following sibling
HasNextSibling(F, p) == LastOf(p) < Len(Coll(F, ParentOf(p))) - 1

\* the line the claim gives the node at path p: a bar or a space for each
\* proper ancestor from the root down, the tee or the ell, the value
LineOf(F, p) ==
    join([d \in 1..(Len(p) - 1) |->
             IF HasNextSibling(F, SubSeq(p, 1, d)) THEN BoxBar ELSE " "], "")
    \o (IF HasNextSibling(F, p) THEN BoxTee ELSE BoxEll)
    \o numberToString(NodeAt(F, p).value)

\* C21: toString gives one line per node, in getAllTrees() order, joined by
\* newlines; the line of a node has one character per proper ancestor (a bar
\* if the ancestor has a following sibling, else a space), then the tee if the
\* node has a following sibling and the ell if it is the last, then the value.
ToStringLines ==
    (call.op = "toString")
    => LET all == Drained(heap, trees)
       IN /\ ~Threw(ret)
          /\ ret.r = join([i \in 1..Len(all) |-> LineOf(This, all[i][2])], "\n")
          /\ This = <<>> => ret.r = ""

\* a forest of two roots, the last of them a branch with a child, was rendered
ToStringLinesWitness ==
    /\ call.op = "toString"
    /\ Len(This) = 2
    /\ isTreeBranch(This[2])
    /\ Len(This[2].children) = 1
    /\ ~Threw(ret)
    /\ ret.r # ""

Min(a, b) == IF a <= b THEN a ELSE b

\* C22: getTreesAt(path, amount) returns, in order, the nodes at indices
\* k .. min(k + amount, |S|) - 1 of the collection S the parent prefix
\* addresses, k being the final index; the empty sequence, without raising, for
\* the empty path; it raises ExpectedBranch when the parent prefix resolves to
\* a leaf.
GetTreesAtRun ==
    (call.op = "getTreesAt")
    => /\ call.path = <<>> => ~Threw(ret) /\ Returned = <<>>
       /\ (call.path # <<>> /\ HasColl(This, ParentOf(call.path)))
            => LET S == Coll(This, ParentOf(call.path))
                   k == LastOf(call.path)
               IN /\ ~Threw(ret)
                  /\ Returned = Run(S, k, Min(k + call.amount, Len(S)))
       /\ (Len(call.path) >= 2 /\ ParentOf(call.path) \in PathsOf(This)
            /\ ~isTreeBranch(NodeAt(This, ParentOf(call.path))))
            => ret.err = errorNotBranch

\* two nodes were asked for at the last child of a branch that has two
\* children, and the one that exists was returned
GetTreesAtRunWitness ==
    /\ call.op = "getTreesAt"
    /\ call.amount = 2
    /\ Len(call.path) = 2
    /\ LastOf(call.path) = 1
    /\ ~Threw(ret)
    /\ Len(Returned) = 1

\* the depths, counted from 1, at which both paths have an index and the
\* indices differ
DifferingDepths(from, to) ==
    {d \in 1..Min(Len(from), Len(to)) : from[d] # to[d]}

\* the target path the insert step is to be given: to with the index of the
\* first differing depth reduced by amount when from's index is the smaller
\* there, and to itself in every other case
AdjustedAtFirstDifference(from, to, amount) ==
    IF DifferingDepths(from, to) = {} THEN to
    ELSE LET d == CHOOSE d \in DifferingDepths(from, to) :
                      \A e \in DifferingDepths(from, to) : d <= e
         IN IF from[d] < to[d] THEN [to EXCEPT ![d] = to[d] - amount] ELSE to

\* C23: move target adjustment: the path given to the insert step differs from
\* to in at most the index of the first depth at which from and to differ,
\* which is reduced by amount when from's index is the smaller there; when
\* from's index is the greater there, or one path is a prefix of the other,
\* the target is used unchanged.
MoveTargetAdjustment ==
    (/\ call.op \in MoveOps
     /\ ~Threw(getTreesAt(heap, trees, call.path, call.amount)))
    => updateMovePath(call.path, call.to, call.amount)
       = AdjustedAtFirstDifference(call.path, call.to, call.amount)

\* the forest of the tests with 6 after subdir
SixLast == <<emptyDir, valueA, [value |-> 30, children |-> <<subdir, valueB>>]>>

\* the call moves 6, the first child of nonEmptyDir, within nonEmptyDir
MovesSix ==
    /\ call.op = "move"
    /\ call.comparator = "none"
    /\ This = testTrees
    /\ call.path = <<2, 0>>

\* C24 as stated: on the forest of the tests move([2,0],[2,2]) and
\* move([2,0],[2,1]) give the same forest, and in both 6 is the last child of
\* nonEmptyDir, after subdir and its subtree.
MoveSixSameResult ==
    (MovesSix /\ call.to \in {<<2, 1>>, <<2, 2>>})
    => /\ ~Threw(ret)
       /\ Returned = Deref(move(heap, trees, <<2, 0>>, <<2, 1>>, "none").h,
                           move(heap, trees, <<2, 0>>, <<2, 1>>, "none").r)
       /\ Returned = Deref(move(heap, trees, <<2, 0>>, <<2, 2>>, "none").h,
                           move(heap, trees, <<2, 0>>, <<2, 2>>, "none").r)
       /\ Returned = SixLast

\* C24: on the forest of the tests move([2,0],[2,2]) puts 6 last among the
\* children of nonEmptyDir, after subdir and its subtree, while
\* move([2,0],[2,1]) returns a forest equal to the receiver, 6 still before
\* subdir: the two results differ.
MoveSixResults ==
    MovesSix
    => /\ call.to = <<2, 2>> => ~Threw(ret) /\ Returned = SixLast
       /\ call.to = <<2, 1>> => ~Threw(ret) /\ Returned = This /\ Returned # SixLast

MoveSixResultsWitness ==
    /\ MovesSix
    /\ call.to = <<2, 2>>
    /\ ~Threw(ret)
    /\ Len(Returned) = 3
    /\ isTreeBranch(Returned[3])
    /\ Len(Returned[3].children) = 2
    /\ Returned[3].children[2] = valueB

\* how many nodes of the forest F have the value v and are branches (leaves)
RECURSIVE CountOf(_, _, _)
CountOf(F, v, branch) ==
    IF F = <<>> THEN 0
    ELSE (IF F[1].value = v /\ isTreeBranch(F[1]) = branch THEN 1 ELSE 0)
         + (IF isTreeBranch(F[1]) THEN CountOf(F[1].children, v, branch) ELSE 0)
         + CountOf(Tail(F), v, branch)

SameNodes(F, G) ==
    \A v \in 1..NumValues, branch \in BOOLEAN :
        CountOf(F, v, branch) = CountOf(G, v, branch)

\* C25: move conserves nodes: whenever a move returns without raising, the
\* result has, for every value and variant, as many nodes as the receiver,
\* also when fewer than amount nodes exist at from, when from's final index is
\* out of range and when to lies inside a moved subtree.
MoveConservesNodes ==
    (call.op \in MoveOps /\ ~Threw(ret)) => SameNodes(This, Returned)

\* two nodes were asked for where one exists, and it was moved elsewhere
MoveConservesNodesWitness ==
    /\ call.op = "moveSeveral"
    /\ call.amount = 2
    /\ call.path \in PathsOf(This)
    /\ LastOf(call.path) = Len(Coll(This, ParentOf(call.path))) - 1
    /\ ~Threw(ret)
    /\ Returned # This

\* the target of a move that returned lies inside the moved subtree
MoveIntoMovedReturns ==
    /\ call.op \in MoveOps
    /\ call.amount >= 1
    /\ call.path \in PathsOf(This)
    /\ Len(call.to) > Len(call.path)
    /\ IsMoved(SubSeq(call.to, 1, Len(call.path)), call.path, call.amount)
    /\ ~Threw(ret)

\* from addresses amount existing siblings, two or more, and to a position of
\* the same collection from the first of them to the one after the last
MovesBlockOntoItself ==
    /\ call.op = "moveSeveral"
    /\ call.comparator = "none"
    /\ call.amount >= 2
    /\ call.path \in PathsOf(This)
    /\ LastOf(call.path) + call.amount <= Len(Coll(This, ParentOf(call.path)))
    /\ Len(call.to) = Len(call.path)
    /\ ParentOf(call.to) = ParentOf(call.path)
    /\ LastOf(call.path) <= LastOf(call.to)
    /\ LastOf(call.to) <= LastOf(call.path) + call.amount

\* C26: moving a block onto itself is a no-op: moveSeveral of two or more
\* existing siblings to a position of their own collection between the first
\* of them and the one after the last returns a forest equal to the receiver,
\* and the target index given to the insert step is not negative.
MoveBlockOntoItself ==
    MovesBlockOntoItself
    => /\ ~Threw(ret)
       /\ Returned = This
       /\ LastOf(updateMovePath(call.path, call.to, call.amount)) >= 0

\* C27: delete validates only the parent prefix: when the prefix addresses a
\* collection and the final index is at or past its end, the call does not
\* raise and returns a forest equal to the receiver; when the final index is in
\* range and fewer than amount siblings follow from it, the siblings from that
\* index to the end are removed without error.
DeleteFinalIndexUnchecked ==
    (/\ call.op \in DeleteOps
     /\ call.path # <<>>
     /\ HasColl(This, ParentOf(call.path)))
    => LET S == Coll(This, ParentOf(call.path))
           k == LastOf(call.path)
       IN /\ k >= Len(S) => ~Threw(ret) /\ Returned = This
          /\ (k < Len(S) /\ k + call.amount > Len(S))
               => /\ ~Threw(ret)
                  /\ Returned = WithColl(This, ParentOf(call.path), SubSeq(S, 1, k))

\* two siblings were to be deleted from the last child of a branch on
DeleteFinalIndexUncheckedWitness ==
    /\ call.op = "deleteSeveralAt"
    /\ call.amount = 2
    /\ Len(call.path) = 2
    /\ call.path \in PathsOf(This)
    /\ LastOf(call.path) = 1
    /\ Len(Coll(This, ParentOf(call.path))) = 2
    /\ ~Threw(ret)
    /\ Len(Coll(Returned, ParentOf(call.path))) = 1

\* a delete past the end of the root list returned
DeletePastEndReturns ==
    /\ call.op \in DeleteOps
    /\ Len(call.path) = 1
    /\ This # <<>>
    /\ LastOf(call.path) > Len(This)
    /\ ~Threw(ret)

====
